---- MODULE Spec2Model ----
(***************************************************************************)
(* BMW M5 configurator: option catalog, configuration store (zustand),     *)
(* constraint rules, validation engine and the chat layer that applies     *)
(* AI function calls to the store.                                         *)
(*                                                                         *)
(* Sources: src/unnamed/part_001 (types and catalogs),                     *)
(*          src/unnamed/part_004 (constraints and validation engine),      *)
(*          src/src/stores/configStore.ts (store),                         *)
(*          src/src/services/openai.ts (function execution),               *)
(*          src/src/components/chat/ChatPanel.tsx (handleSubmit).          *)
(***************************************************************************)
EXTENDS Integers, Sequences, FiniteSets, TLC

VARIABLES
  config,            \* store.config            : CarConfig
  validationResult,  \* store.validationResult  : ValidationResult
  messages,          \* store.messages          : ChatMessage[]
  ui,                \* store.ui                : UIState
  last,              \* the store call or chat step taken last, with its argument
  steps,             \* number of calls made so far (bounded by MaxSteps)
  chat               \* ChatPanel: the handleSubmit invocation in flight, if any

vars == <<config, validationResult, messages, ui, last, steps, chat>>

(***************************************************************************)
(* Bounds                                                                  *)
(***************************************************************************)
MaxSteps == 2        \* store calls explored from the initial store state
MaxMessages == 3     \* chat messages kept in the store in the chat model
MaxCalls == 2        \* function calls in one AI response

(***************************************************************************)
(* JavaScript values                                                       *)
(***************************************************************************)
\* the value of a missing argument or property
undefined == "<undefined>"

\* {} : the object without properties
EmptyRecord == [k \in {} |-> TRUE]

\* { ...a, ...b } : object spread, the properties of b win
Spread(a, b) ==
  [k \in (DOMAIN a) \cup (DOMAIN b) |-> IF k \in DOMAIN b THEN b[k] ELSE a[k]]

\* a string as the sequence of its characters, each a one-character string
Chars(s) == [i \in 1..Len(s) |-> SubSeq(s, i, i)]

\* String.prototype.startsWith
startsWith(s, prefix) ==
  LET a == Chars(s)
      b == Chars(prefix)
  IN  /\ Len(b) <= Len(a)
      /\ SubSeq(a, 1, Len(b)) = b

\* String.prototype.includes
includes(s, part) ==
  LET a == Chars(s)
      b == Chars(part)
  IN  \E i \in 0..(Len(a) - Len(b)) : SubSeq(a, i + 1, i + Len(b)) = b

\* Array.prototype.find(x => x.id === id): <<>> when nothing matches,
\* otherwise the one-element sequence holding the first match
find(catalog, id) ==
  LET hits == {i \in 1..Len(catalog) : catalog[i].id = id}
  IN  IF hits = {} THEN <<>>
      ELSE <<catalog[CHOOSE i \in hits : \A j \in hits : i <= j]>>

\* the identifiers of a catalog
Ids(catalog) == {catalog[i].id : i \in 1..Len(catalog)}

\* the elements of a sequence
Range(seq) == {seq[i] : i \in 1..Len(seq)}

(***************************************************************************)
(* Option catalog                                                          *)
(***************************************************************************)
AVAILABLE_COLORS == <<
  [id |-> "alpine-white", name |-> "Alpinweiß", hex |-> "#f5f5f5", type |-> "solid", price |-> 0],
  [id |-> "black", name |-> "Schwarz", hex |-> "#1a1a1a", type |-> "solid", price |-> 0],
  [id |-> "sapphire-black", name |-> "Saphirschwarz Metallic", hex |-> "#0f0f14", type |-> "metallic", price |-> 1200],
  [id |-> "brooklyn-grey", name |-> "Brooklyn Grau Metallic", hex |-> "#4a4a4f", type |-> "metallic", price |-> 1200],
  [id |-> "portimao-blue", name |-> "Portimao Blau Metallic", hex |-> "#1c3d6e", type |-> "metallic", price |-> 1200],
  [id |-> "isle-of-man-green", name |-> "Isle of Man Grün Metallic", hex |-> "#1a3d2e", type |-> "metallic", price |-> 1500],
  [id |-> "frozen-deep-grey", name |-> "Frozen Deep Grey", hex |-> "#3a3a3a", type |-> "frozen", price |-> 4500],
  [id |-> "frozen-marina-bay-blue", name |-> "Frozen Marina Bay Blau", hex |-> "#1c4d7a", type |-> "frozen", price |-> 4500] >>

AVAILABLE_WHEELS == <<
  [id |-> "standard-19", name |-> "Standard Alufelgen 19\"", size |-> 19, type |-> "standard", price |-> 0],
  [id |-> "m-double-spoke-20", name |-> "M Doppelspeiche 20\"", size |-> 20, type |-> "m-sport", price |-> 1800],
  [id |-> "m-star-spoke-21", name |-> "M Sternspeiche 21\"", size |-> 21, type |-> "m-sport", price |-> 2400],
  [id |-> "m-y-spoke-21", name |-> "M Y-Speiche 21\"", size |-> 21, type |-> "m-sport", price |-> 2800],
  [id |-> "m-performance-forge-21", name |-> "M Performance Geschmiedet 21\"", size |-> 21, type |-> "m-performance", price |-> 4200] >>

INTERIOR_COLORS == <<
  [id |-> "black", name |-> "Schwarz"],
  [id |-> "cognac", name |-> "Cognac"],
  [id |-> "silverstone", name |-> "Silverstone"],
  [id |-> "fiona-red", name |-> "Fiona Rot"],
  [id |-> "ivory-white", name |-> "Elfenbeinweiß"],
  [id |-> "alpine-white", name |-> "Alpinweiß"] >>

AVAILABLE_GRILL_COLORS == <<
  [id |-> "chrome", name |-> "Chrom", hex |-> "#C0C0C0", price |-> 0],
  [id |-> "black-high-gloss", name |-> "Schwarz Hochglanz", hex |-> "#0a0a0a", price |-> 350],
  [id |-> "shadow-line", name |-> "Shadow Line", hex |-> "#1a1a1a", price |-> 650],
  [id |-> "cerium-grey", name |-> "Cerium Grau", hex |-> "#5a5a5a", price |-> 450],
  [id |-> "gold-bronze", name |-> "Gold Bronze", hex |-> "#8B7355", price |-> 850] >>

AVAILABLE_HOOD_PATTERNS == <<
  [id |-> "standard", name |-> "Standard", description |-> "Unifarben ohne Muster", price |-> 0],
  [id |-> "carbon-fiber", name |-> "Carbon Fiber", description |-> "Sichtbare Carbonfaser-Optik", price |-> 2800],
  [id |-> "m-stripes", name |-> "M Streifen", description |-> "BMW M Farbstreifen (Blau/Violett/Rot)", price |-> 450],
  [id |-> "racing-stripes", name |-> "Racing Stripes", description |-> "Mittige Rennstreifen in Kontrastfarbe", price |-> 650],
  [id |-> "matte-finish", name |-> "Matt Finish", description |-> "Matte Lackierung für sportlichen Look", price |-> 1200] >>

\* the closed string sets of CarConfig
Models == {"M5", "5-series"}
PerformancePackages == {"none", "performance", "competition"}
BrakeTypes == {"standard", "performance", "ceramic"}
Leathers == {"vernasca", "merino", "extended-merino"}
Trims == {"aluminum", "wood", "carbon"}
Lights == {"led", "laser"}
Sounds == {"standard", "harman-kardon", "bowers-wilkins"}
DrivingAssistants == {"none", "plus", "pro"}
CameraPositions == {"front", "side", "rear", "interior", "wheels"}
ActivePanels == {"chat", "config", "validation"}

(***************************************************************************)
(* Constraint rules (predicate true = the rule is VIOLATED)                *)
(***************************************************************************)
BMW_M5_CONSTRAINTS_SwappedWheelAlternatives == <<
  [id |-> "M5_REQUIRES_M_WHEELS", severity |-> "block", category |-> "wheels",
   suggestedAlternative |-> "m-star-spoke-21",
   message |-> "Der BMW M5 Sportwagen erfordert M Sport Felgen. Standard-Alufelgen sind für dieses Hochleistungsfahrzeug nicht verfügbar."],
  [id |-> "M_COMPETITION_21_INCH", severity |-> "block", category |-> "wheels",
   suggestedAlternative |-> "m-double-spoke-20",
   message |-> "Das M Competition Paket ist nur mit 21 Zoll Felgen kompatibel für optimale Bremsleistung."],
  [id |-> "CERAMIC_BRAKES_PERFORMANCE", severity |-> "block", category |-> "brakes",
   suggestedAlternative |-> "performance",
   message |-> "Die M Carbon Keramikbremsen sind nur in Kombination mit einem M Performance Paket verfügbar."],
  [id |-> "FROZEN_COLOR_M5", severity |-> "block", category |-> "color",
   suggestedAlternative |-> "sapphire-black",
   message |-> "Frozen Individual Lackierungen sind exklusiv für den BMW M5 verfügbar."],
  [id |-> "MERINO_LEATHER_M5", severity |-> "block", category |-> "interior",
   suggestedAlternative |-> "vernasca",
   message |-> "Das Extended Merino Leder ist ein exklusives Feature für den BMW M5."],
  [id |-> "CARBON_TRIM_PERFORMANCE", severity |-> "warn", category |-> "interior",
   suggestedAlternative |-> "aluminum",
   message |-> "Das M Carbon Interieurpaket ist nur mit einem Performance-Paket erhältlich."],
  [id |-> "DRIVING_ASSIST_PRO_LASER", severity |-> "warn", category |-> "tech",
   suggestedAlternative |-> "laser",
   message |-> "Der Driving Assistant Professional nutzt das Laserlicht-System für optimale Funktionalität."],
  [id |-> "HARMAN_KARDON_MIN", severity |-> "warn", category |-> "tech",
   suggestedAlternative |-> "harman-kardon",
   message |-> "Der BMW M5 wird serienmäßig mit dem Harman Kardon Surround Sound System ausgestattet."] >>

BMW_M5_CONSTRAINTS == <<
  [id |-> "M5_REQUIRES_M_WHEELS", severity |-> "block", category |-> "wheels",
   suggestedAlternative |-> "m-double-spoke-20",
   message |-> "Der BMW M5 Sportwagen erfordert M Sport Felgen. Standard-Alufelgen sind für dieses Hochleistungsfahrzeug nicht verfügbar."],
  [id |-> "M_COMPETITION_21_INCH", severity |-> "block", category |-> "wheels",
   suggestedAlternative |-> "m-star-spoke-21",
   message |-> "Das M Competition Paket ist nur mit 21 Zoll Felgen kompatibel für optimale Bremsleistung."],
  [id |-> "CERAMIC_BRAKES_PERFORMANCE", severity |-> "block", category |-> "brakes",
   suggestedAlternative |-> "performance",
   message |-> "Die M Carbon Keramikbremsen sind nur in Kombination mit einem M Performance Paket verfügbar."],
  [id |-> "FROZEN_COLOR_M5", severity |-> "block", category |-> "color",
   suggestedAlternative |-> "sapphire-black",
   message |-> "Frozen Individual Lackierungen sind exklusiv für den BMW M5 verfügbar."],
  [id |-> "MERINO_LEATHER_M5", severity |-> "block", category |-> "interior",
   suggestedAlternative |-> "vernasca",
   message |-> "Das Extended Merino Leder ist ein exklusives Feature für den BMW M5."],
  [id |-> "CARBON_TRIM_PERFORMANCE", severity |-> "warn", category |-> "interior",
   suggestedAlternative |-> "aluminum",
   message |-> "Das M Carbon Interieurpaket ist nur mit einem Performance-Paket erhältlich."],
  [id |-> "DRIVING_ASSIST_PRO_LASER", severity |-> "warn", category |-> "tech",
   suggestedAlternative |-> "laser",
   message |-> "Der Driving Assistant Professional nutzt das Laserlicht-System für optimale Funktionalität."],
  [id |-> "HARMAN_KARDON_MIN", severity |-> "warn", category |-> "tech",
   suggestedAlternative |-> "harman-kardon",
   message |-> "Der BMW M5 wird serienmäßig mit dem Harman Kardon Surround Sound System ausgestattet."] >>

\* variant: the negation of the prefix test is lost
cond_M5_REQUIRES_M_WHEELS_NoNegation(cfg) ==
  cfg.model = "M5" /\ startsWith(cfg.wheels.id, "m-")

\* the condition closures of the rules, one per rule
cond_M5_REQUIRES_M_WHEELS(cfg) ==
  cfg.model = "M5" /\ ~startsWith(cfg.wheels.id, "m-")

cond_M_COMPETITION_21_INCH_AnyPackage(cfg) ==
  ~includes(cfg.wheels.id, "21")

cond_M_COMPETITION_21_INCH(cfg) ==
  cfg.performancePackage = "competition" /\ ~includes(cfg.wheels.id, "21")

\* variant: ceramic brakes demand the competition package
cond_CERAMIC_BRAKES_PERFORMANCE_CompetitionOnly(cfg) ==
  cfg.brakes = "ceramic" /\ cfg.performancePackage # "competition"

cond_CERAMIC_BRAKES_PERFORMANCE(cfg) ==
  cfg.brakes = "ceramic" /\ cfg.performancePackage = "none"

cond_FROZEN_COLOR_M5_AnyModel(cfg) ==
  startsWith(cfg.color.id, "frozen-")

cond_FROZEN_COLOR_M5(cfg) ==
  startsWith(cfg.color.id, "frozen-") /\ cfg.model # "M5"

cond_MERINO_LEATHER_M5(cfg) ==
  cfg.interior.leather = "extended-merino" /\ cfg.model # "M5"

cond_CARBON_TRIM_PERFORMANCE_AnyPackage(cfg) ==
  cfg.interior.trim = "carbon"

cond_CARBON_TRIM_PERFORMANCE_ReadsHoodPattern(cfg) ==
  cfg.hoodPattern.id = "carbon-fiber" /\
  cfg.performancePackage = "none"

cond_CARBON_TRIM_PERFORMANCE(cfg) ==
  cfg.interior.trim = "carbon" /\ cfg.performancePackage = "none"

cond_DRIVING_ASSIST_PRO_LASER(cfg) ==
  cfg.drivingAssistant = "pro" /\ cfg.lights # "laser"

cond_HARMAN_KARDON_MIN(cfg) ==
  cfg.model = "M5" /\ cfg.sound = "standard"

\* rule.condition(config)
condition(rule, cfg) ==
  CASE rule.id = "M5_REQUIRES_M_WHEELS" -> cond_M5_REQUIRES_M_WHEELS(cfg)
    [] rule.id = "M_COMPETITION_21_INCH" -> cond_M_COMPETITION_21_INCH(cfg)
    [] rule.id = "CERAMIC_BRAKES_PERFORMANCE" -> cond_CERAMIC_BRAKES_PERFORMANCE(cfg)
    [] rule.id = "FROZEN_COLOR_M5" -> cond_FROZEN_COLOR_M5(cfg)
    [] rule.id = "MERINO_LEATHER_M5" -> cond_MERINO_LEATHER_M5(cfg)
    [] rule.id = "CARBON_TRIM_PERFORMANCE" -> cond_CARBON_TRIM_PERFORMANCE(cfg)
    [] rule.id = "DRIVING_ASSIST_PRO_LASER" -> cond_DRIVING_ASSIST_PRO_LASER(cfg)
    [] rule.id = "HARMAN_KARDON_MIN" -> cond_HARMAN_KARDON_MIN(cfg)

(***************************************************************************)
(* Validation engine                                                       *)
(***************************************************************************)
\* variant: the loop stops at the first triggered rule
collectViolations_FirstOnly(rules, cfg) ==
  LET RECURSIVE loop(_, _)
      loop(i, violations) ==
        IF i > Len(rules) \/ Len(violations) > 0 THEN violations
        ELSE loop(i + 1,
                  IF condition(rules[i], cfg)
                    THEN Append(violations, [rule |-> rules[i], triggered |-> TRUE])
                    ELSE violations)
  IN  loop(1, <<>>)

\* for (const rule of rules) if (rule.condition(config)) violations.push(...)
collectViolations(rules, cfg) ==
  LET RECURSIVE loop(_, _)
      loop(i, violations) ==
        IF i > Len(rules) THEN violations
        ELSE loop(i + 1,
                  IF condition(rules[i], cfg)
                    THEN Append(violations, [rule |-> rules[i], triggered |-> TRUE])
                    ELSE violations)
  IN  loop(1, <<>>)

\* variant: any violation, not only a blocker, makes the result invalid
validateWith_AnyViolationInvalid(rules, cfg) ==
  LET violations == collectViolations(rules, cfg)
      blockers == SelectSeq(violations, LAMBDA v : v.rule.severity = "block")
      warnings == SelectSeq(violations, LAMBDA v : v.rule.severity = "warn")
  IN  [isValid |-> Len(violations) = 0,
       blockers |-> [i \in 1..Len(blockers) |-> blockers[i].rule],
       warnings |-> [i \in 1..Len(warnings) |-> warnings[i].rule],
       totalViolations |-> Len(violations)]

\* variant: totalViolations counts the blockers only
validateWith_CountsBlockersOnly(rules, cfg) ==
  LET violations == collectViolations(rules, cfg)
      blockers == SelectSeq(violations, LAMBDA v : v.rule.severity = "block")
      warnings == SelectSeq(violations, LAMBDA v : v.rule.severity = "warn")
  IN  [isValid |-> Len(blockers) = 0,
       blockers |-> [i \in 1..Len(blockers) |-> blockers[i].rule],
       warnings |-> [i \in 1..Len(warnings) |-> warnings[i].rule],
       totalViolations |-> Len(blockers)]

\* the body of validateConfiguration, over the rule list it iterates
validateWith(rules, cfg) ==
  LET violations == collectViolations(rules, cfg)
      blockers == SelectSeq(violations, LAMBDA v : v.rule.severity = "block")
      warnings == SelectSeq(violations, LAMBDA v : v.rule.severity = "warn")
  IN  [isValid |-> Len(blockers) = 0,
       blockers |-> [i \in 1..Len(blockers) |-> blockers[i].rule],
       warnings |-> [i \in 1..Len(warnings) |-> warnings[i].rule],
       totalViolations |-> Len(violations)]

validateConfiguration(cfg) == validateWith(BMW_M5_CONSTRAINTS, cfg)

\* the fixed sentence for a fully valid configuration
VALID_SENTENCE == "Die Konfiguration ist gültig und kann so bestellt werden."

getValidationExplanation_IgnoresWarnings(result) ==
  IF result.isValid
    THEN <<"Die Konfiguration ist gültig und kann so bestellt werden.">>
    ELSE <<"Diese Konfiguration kann nicht bestellt werden:">>
         \o [i \in 1..Len(result.blockers) |-> "- " \o result.blockers[i].message]
         \o (IF Len(result.warnings) > 0
               THEN <<"", "Hinweise:">>
                    \o [i \in 1..Len(result.warnings) |-> "- " \o result.warnings[i].message]
               ELSE <<>>)

getValidationExplanation_WarningsFirst(result) ==
  IF result.isValid /\ Len(result.warnings) = 0
    THEN <<"Die Konfiguration ist gültig und kann so bestellt werden.">>
    ELSE (IF Len(result.warnings) > 0
            THEN <<"", "Hinweise:">>
                 \o [i \in 1..Len(result.warnings) |-> "- " \o result.warnings[i].message]
            ELSE <<>>)
         \o (IF Len(result.blockers) > 0
               THEN <<"Diese Konfiguration kann nicht bestellt werden:">>
                    \o [i \in 1..Len(result.blockers) |-> "- " \o result.blockers[i].message]
               ELSE <<>>)

\* getValidationExplanation: the lines of parts.join('\n')
getValidationExplanation(result) ==
  IF result.isValid /\ Len(result.warnings) = 0
    THEN <<VALID_SENTENCE>>
    ELSE LET blockerPart ==
               IF Len(result.blockers) > 0
                 THEN <<"Diese Konfiguration kann nicht bestellt werden:">>
                      \o [i \in 1..Len(result.blockers) |-> "- " \o result.blockers[i].message]
                 ELSE <<>>
             warningPart ==
               IF Len(result.warnings) > 0
                 THEN <<"", "Hinweise:">>
                      \o [i \in 1..Len(result.warnings) |-> "- " \o result.warnings[i].message]
                 ELSE <<>>
         IN  blockerPart \o warningPart

(***************************************************************************)
(* Store: initial state                                                    *)
(***************************************************************************)
\* variant: the default ships the standard sound system
DEFAULT_CONFIG_StandardSound ==
  [model |-> "M5",
   performancePackage |-> "performance",
   color |-> find(AVAILABLE_COLORS, "sapphire-black")[1],
   wheels |-> find(AVAILABLE_WHEELS, "m-double-spoke-20")[1],
   brakes |-> "performance",
   interior |-> [leather |-> "merino", color |-> "black", trim |-> "aluminum"],
   lights |-> "laser",
   sound |-> "standard",
   drivingAssistant |-> "plus",
   grillColor |-> find(AVAILABLE_GRILL_COLORS, "shadow-line")[1],
   hoodPattern |-> find(AVAILABLE_HOOD_PATTERNS, "standard")[1]]

\* variant: the store starts with the 5 series
DEFAULT_CONFIG_FiveSeries ==
  [model |-> "5-series",
   performancePackage |-> "performance",
   color |-> find(AVAILABLE_COLORS, "sapphire-black")[1],
   wheels |-> find(AVAILABLE_WHEELS, "m-double-spoke-20")[1],
   brakes |-> "performance",
   interior |-> [leather |-> "merino", color |-> "black", trim |-> "aluminum"],
   lights |-> "laser",
   sound |-> "harman-kardon",
   drivingAssistant |-> "plus",
   grillColor |-> find(AVAILABLE_GRILL_COLORS, "shadow-line")[1],
   hoodPattern |-> find(AVAILABLE_HOOD_PATTERNS, "standard")[1]]

DEFAULT_CONFIG ==
  [model |-> "M5",
   performancePackage |-> "performance",
   color |-> find(AVAILABLE_COLORS, "sapphire-black")[1],
   wheels |-> find(AVAILABLE_WHEELS, "m-double-spoke-20")[1],
   brakes |-> "performance",
   interior |-> [leather |-> "merino", color |-> "black", trim |-> "aluminum"],
   lights |-> "laser",
   sound |-> "harman-kardon",
   drivingAssistant |-> "plus",
   grillColor |-> find(AVAILABLE_GRILL_COLORS, "shadow-line")[1],
   hoodPattern |-> find(AVAILABLE_HOOD_PATTERNS, "standard")[1]]

\* a chat message; the random id and the timestamp of a message are not modelled
WELCOME ==
  [id |-> "welcome", role |-> "assistant",
   content |-> "Willkommen beim BMW M5 KI-Konfigurator! Ich helfe Ihnen, Ihren perfekten M5 zu konfigurieren. Sie können mir einfach sagen, was Sie ändern möchten - zum Beispiel: \"Zeig mir die Farben\" oder \"Ich möchte andere Felgen\". Wie kann ich Ihnen helfen?"]

WELCOME_AFTER_CLEAR ==
  [id |-> "welcome", role |-> "assistant",
   content |-> "Willkommen beim BMW M5 KI-Konfigurator! Wie kann ich Ihnen helfen?"]

INITIAL_UI ==
  [isLoading |-> FALSE,
   isRecording |-> FALSE,
   activePanel |-> "chat",
   showValidationOverlay |-> FALSE,
   cameraPosition |-> "front"]

\* create<ConfigStore>(...) : the state the store is constructed with
INITIAL_STORE ==
  [config |-> DEFAULT_CONFIG,
   validationResult |-> validateConfiguration(DEFAULT_CONFIG),
   messages |-> <<WELCOME>>,
   ui |-> INITIAL_UI]

(***************************************************************************)
(* Store actions, as functions from the store state to the next one        *)
(***************************************************************************)
\* variant: the updates are applied to the default configuration
updateConfig_OntoDefault(s, updates) ==
  LET newConfig == Spread(DEFAULT_CONFIG, updates)
  IN  [s EXCEPT !.config = newConfig,
                !.validationResult = validateConfiguration(newConfig)]

updateConfig(s, updates) ==
  LET newConfig == Spread(s.config, updates)
  IN  [s EXCEPT !.config = newConfig,
                !.validationResult = validateConfiguration(newConfig)]

\* variant: an unknown identifier falls back to the default colour
setColor_FallbackOnMiss(s, colorId) ==
  LET found == find(AVAILABLE_COLORS, colorId)
      color == IF Len(found) > 0 THEN found ELSE <<DEFAULT_CONFIG.color>>
  IN  LET newConfig == Spread(s.config, [color |-> color[1]])
      IN  [s EXCEPT !.config = newConfig,
                    !.validationResult = validateConfiguration(newConfig)]

setColor(s, colorId) ==
  LET color == find(AVAILABLE_COLORS, colorId)
  IN  IF Len(color) > 0
        THEN LET newConfig == Spread(s.config, [color |-> color[1]])
             IN  [s EXCEPT !.config = newConfig,
                           !.validationResult = validateConfiguration(newConfig)]
        ELSE s

setWheels(s, wheelId) ==
  LET wheels == find(AVAILABLE_WHEELS, wheelId)
  IN  IF Len(wheels) > 0
        THEN LET newConfig == Spread(s.config, [wheels |-> wheels[1]])
             IN  [s EXCEPT !.config = newConfig,
                           !.validationResult = validateConfiguration(newConfig)]
        ELSE s

\* variant: the new configuration is stored without revalidation
setInterior_NoRevalidate(s, interiorUpdates) ==
  LET newConfig ==
        Spread(s.config, [interior |-> Spread(s.config.interior, interiorUpdates)])
  IN  [s EXCEPT !.config = newConfig]

setInterior(s, interiorUpdates) ==
  LET newConfig ==
        Spread(s.config, [interior |-> Spread(s.config.interior, interiorUpdates)])
  IN  [s EXCEPT !.config = newConfig,
                !.validationResult = validateConfiguration(newConfig)]

setPerformancePackage(s, pkg) ==
  LET newConfig == Spread(s.config, [performancePackage |-> pkg])
  IN  [s EXCEPT !.config = newConfig,
                !.validationResult = validateConfiguration(newConfig)]

setBrakes_ValidatesOldConfig(s, brakes) ==
  LET newConfig == Spread(s.config, [brakes |-> brakes])
  IN  [s EXCEPT !.config = newConfig,
                !.validationResult = validateConfiguration(s.config)]

setBrakes(s, brakes) ==
  LET newConfig == Spread(s.config, [brakes |-> brakes])
  IN  [s EXCEPT !.config = newConfig,
                !.validationResult = validateConfiguration(newConfig)]

setGrillColor(s, grillColorId) ==
  LET grillColor == find(AVAILABLE_GRILL_COLORS, grillColorId)
  IN  IF Len(grillColor) > 0
        THEN LET newConfig == Spread(s.config, [grillColor |-> grillColor[1]])
             IN  [s EXCEPT !.config = newConfig,
                           !.validationResult = validateConfiguration(newConfig)]
        ELSE s

setHoodPattern(s, hoodPatternId) ==
  LET hoodPattern == find(AVAILABLE_HOOD_PATTERNS, hoodPatternId)
  IN  IF Len(hoodPattern) > 0
        THEN LET newConfig == Spread(s.config, [hoodPattern |-> hoodPattern[1]])
             IN  [s EXCEPT !.config = newConfig,
                           !.validationResult = validateConfiguration(newConfig)]
        ELSE s

resetConfig_KeepsValidation(s) ==
  [s EXCEPT !.config = DEFAULT_CONFIG]

resetConfig(s) ==
  [s EXCEPT !.config = DEFAULT_CONFIG,
            !.validationResult = validateConfiguration(DEFAULT_CONFIG)]

addMessage(s, message) ==
  LET newMessage == Spread(message, [id |-> "msg"])
  IN  [s EXCEPT !.messages = Append(s.messages, newMessage)]

clearMessages(s) == [s EXCEPT !.messages = <<WELCOME_AFTER_CLEAR>>]

setLoading(s, loading) == [s EXCEPT !.ui = Spread(s.ui, [isLoading |-> loading])]

setRecording(s, recording) == [s EXCEPT !.ui = Spread(s.ui, [isRecording |-> recording])]

setActivePanel(s, panel) == [s EXCEPT !.ui = Spread(s.ui, [activePanel |-> panel])]

setCameraPosition(s, position) ==
  [s EXCEPT !.ui = Spread(s.ui, [cameraPosition |-> position])]

toggleValidationOverlay(s) ==
  [s EXCEPT !.ui = Spread(s.ui, [showValidationOverlay |-> ~s.ui.showValidationOverlay])]

revalidate(s) == [s EXCEPT !.validationResult = validateConfiguration(s.config)]

(***************************************************************************)
(* AI function execution (services/openai.ts)                              *)
(***************************************************************************)
\* args.key : undefined when the function call carries no such argument
Get(args, key) == IF key \in DOMAIN args THEN args[key] ELSE undefined

\* truthiness of a string or undefined
Truthy(v) == v # undefined /\ v # ""

(***************************************************************************)
(* Suggested fixes                                                         *)
(***************************************************************************)
\* wheels[id] || id
getWheelName(id) ==
  CASE id = "m-double-spoke-20" -> "M Doppelspeiche 20\""
    [] id = "m-star-spoke-21" -> "M Sternspeiche 21\""
    [] id = "m-y-spoke-21" -> "M Y-Speiche 21\""
    [] OTHER -> id

\* colors[id] || id
getColorName(id) ==
  CASE id = "sapphire-black" -> "Saphirschwarz Metallic"
    [] id = "alpine-white" -> "Alpinweiß"
    [] id = "brooklyn-grey" -> "Brooklyn Grau Metallic"
    [] OTHER -> id

suggestFixes_WarningsFirst(result, _config) ==
  LET rules == result.warnings \o result.blockers
      RECURSIVE loop(_, _)
      loop(i, suggestions) ==
        IF i > Len(rules) THEN suggestions
        ELSE LET rule == rules[i]
                 alt == Get(rule, "suggestedAlternative")
             IN  loop(i + 1,
                   IF Truthy(alt)
                     THEN CASE rule.category = "wheels" ->
                                 Append(suggestions, "Felgen ändern zu: " \o getWheelName(alt))
                            [] rule.category = "brakes" ->
                                 Append(suggestions, "Performance-Paket hinzufügen für Keramikbremsen")
                            [] rule.category = "color" ->
                                 Append(suggestions, "Farbe ändern zu: " \o getColorName(alt))
                            [] rule.category = "interior" ->
                                 Append(suggestions, "Interieur ändern zu: " \o alt)
                            [] rule.category = "tech" ->
                                 Append(suggestions, "Ausstattung hinzufügen: " \o alt)
                            [] OTHER -> suggestions
                     ELSE suggestions)
  IN  loop(1, <<>>)

suggestFixes(result, _config) ==
  LET rules == result.blockers \o result.warnings
      RECURSIVE loop(_, _)
      loop(i, suggestions) ==
        IF i > Len(rules) THEN suggestions
        ELSE LET rule == rules[i]
                 alt == Get(rule, "suggestedAlternative")
             IN  loop(i + 1,
                   IF Truthy(alt)
                     THEN CASE rule.category = "wheels" ->
                                 Append(suggestions, "Felgen ändern zu: " \o getWheelName(alt))
                            [] rule.category = "brakes" ->
                                 Append(suggestions, "Performance-Paket hinzufügen für Keramikbremsen")
                            [] rule.category = "color" ->
                                 Append(suggestions, "Farbe ändern zu: " \o getColorName(alt))
                            [] rule.category = "interior" ->
                                 Append(suggestions, "Interieur ändern zu: " \o alt)
                            [] rule.category = "tech" ->
                                 Append(suggestions, "Ausstattung hinzufügen: " \o alt)
                            [] OTHER -> suggestions
                     ELSE suggestions)
  IN  loop(1, <<>>)

\* the result object: configUpdate, cameraPosition and showValidation are
\* present only where the code returns them
executeOpenAIFunctionCall(name, args, currentConfig) ==
  CASE name = "change_color" ->
         LET color == find(AVAILABLE_COLORS, Get(args, "colorId"))
         IN  IF Len(color) > 0
               THEN [configUpdate |-> [color |-> color[1]]]
               ELSE EmptyRecord
    [] name = "change_wheels" ->
         LET wheels == find(AVAILABLE_WHEELS, Get(args, "wheelId"))
         IN  IF Len(wheels) > 0
               THEN [configUpdate |-> [wheels |-> wheels[1]]]
               ELSE EmptyRecord
    [] name = "change_interior" ->
         LET leather == IF Truthy(Get(args, "leather"))
                          THEN [leather |-> Get(args, "leather")] ELSE EmptyRecord
             color == IF Truthy(Get(args, "color"))
                        THEN [color |-> Get(args, "color")] ELSE EmptyRecord
             trim == IF Truthy(Get(args, "trim"))
                       THEN [trim |-> Get(args, "trim")] ELSE EmptyRecord
             interiorUpdate == Spread(Spread(leather, color), trim)
         IN  [configUpdate |->
                [interior |-> Spread(currentConfig.interior, interiorUpdate)]]
    [] name = "change_brakes" ->
         [configUpdate |-> [brakes |-> Get(args, "brakes")]]
    [] name = "set_performance_package" ->
         [configUpdate |-> [performancePackage |-> Get(args, "package")]]
    [] name = "move_camera" ->
         [cameraPosition |-> Get(args, "position")]
    [] name = "validate_configuration" ->
         [showValidation |-> TRUE]
    [] name = "change_grill_color" ->
         LET grillColor == find(AVAILABLE_GRILL_COLORS, Get(args, "grillColorId"))
         IN  IF Len(grillColor) > 0
               THEN [configUpdate |-> [grillColor |-> grillColor[1]]]
               ELSE EmptyRecord
    [] name = "change_hood_pattern" ->
         LET hoodPattern == find(AVAILABLE_HOOD_PATTERNS, Get(args, "hoodPatternId"))
         IN  IF Len(hoodPattern) > 0
               THEN [configUpdate |-> [hoodPattern |-> hoodPattern[1]]]
               ELSE EmptyRecord
    [] OTHER -> EmptyRecord

(***************************************************************************)
(* Strings as character sequences: what handleDemoMode does with the user  *)
(* message                                                                 *)
(***************************************************************************)
UPPER_CASE == <<"A", "B", "C", "D", "E", "F", "G", "H", "I", "J", "K", "L", "M",
                "N", "O", "P", "Q", "R", "S", "T", "U", "V", "W", "X", "Y", "Z",
                "Ä", "Ö", "Ü">>
LOWER_CASE == <<"a", "b", "c", "d", "e", "f", "g", "h", "i", "j", "k", "l", "m",
                "n", "o", "p", "q", "r", "s", "t", "u", "v", "w", "x", "y", "z",
                "ä", "ö", "ü">>

\* String.prototype.toLowerCase, character by character
toLowerCase(cs) ==
  [i \in 1..Len(cs) |->
     IF \E k \in 1..Len(UPPER_CASE) : UPPER_CASE[k] = cs[i]
       THEN LOWER_CASE[CHOOSE k \in 1..Len(UPPER_CASE) : UPPER_CASE[k] = cs[i]]
       ELSE cs[i]]

\* .replace(/ß/g, 'ss').replace(/ä/g, 'ae').replace(/ö/g, 'oe').replace(/ü/g, 'ue')
RECURSIVE normalizeGerman(_)
normalizeGerman(cs) ==
  IF cs = <<>> THEN <<>>
  ELSE (CASE Head(cs) = "ß" -> <<"s", "s">>
          [] Head(cs) = "ä" -> <<"a", "e">>
          [] Head(cs) = "ö" -> <<"o", "e">>
          [] Head(cs) = "ü" -> <<"u", "e">>
          [] OTHER -> <<Head(cs)>>) \o normalizeGerman(Tail(cs))

\* .replace(/-/g, ' ')
dashesToSpaces(cs) == [i \in 1..Len(cs) |-> IF cs[i] = "-" THEN " " ELSE cs[i]]

\* String.prototype.includes on character sequences
includesChars(a, b) ==
  \E i \in 0..(Len(a) - Len(b)) : SubSeq(a, i + 1, i + Len(b)) = b

\* String.prototype.trim: leading and trailing blanks removed
RECURSIVE trimStart(_)
trimStart(cs) == IF cs # <<>> /\ Head(cs) = " " THEN trimStart(Tail(cs)) ELSE cs

RECURSIVE trimEnd(_)
trimEnd(cs) ==
  IF cs # <<>> /\ cs[Len(cs)] = " " THEN trimEnd(SubSeq(cs, 1, Len(cs) - 1)) ELSE cs

\* Array.prototype.find with a predicate: <<>> or the first match
findBy(catalog, P(_)) ==
  LET hits == {i \in 1..Len(catalog) : P(catalog[i])}
  IN  IF hits = {} THEN <<>>
      ELSE <<catalog[CHOOSE i \in hits : \A j \in hits : i <= j]>>

\* Array.prototype.join('\n')
RECURSIVE joinLines(_)
joinLines(lines) ==
  IF lines = <<>> THEN ""
  ELSE IF Len(lines) = 1 THEN lines[1]
  ELSE lines[1] \o "\n" \o joinLines(Tail(lines))

\* user messages: the quick actions, catalog names and identifiers, and
\* requests for each kind of command
UserMessages == {
  "Zeig mir die Farben",
  "Felgen ändern",
  "Standard Felgen",
  "standard-19",
  "Standard Alufelgen 19\" bitte",
  "standard-19 oder m-star-spoke-21",
  "M Sternspeiche",
  "M Performance Geschmiedet",
  "Frozen Deep Grey",
  "Alpinweiß",
  "Cognac Leder",
  "Extended Merino Leder",
  "Innenraum Carbon",
  "Keramik Bremsen",
  "Standard Bremsen",
  "M Competition Paket",
  "Paket ohne",
  "Niere Gold",
  "Motorhaube Carbon",
  "Konfiguration prüfen",
  "Zeig mir die Seite",
  "Hallo",
  "schwarz",
  "Schwarze Sitze",
  " " }

(***************************************************************************)
(* openai.ts: demo mode.  The calls of a reply are modelled in full; a     *)
(* reply text that runs over several lines is kept to its first line,      *)
(* without pictographs.                                                    *)
(***************************************************************************)
Reply(message, functionCalls) == [message |-> message, functionCalls |-> functionCalls]

FunctionCall(name, args) == [name |-> name, args |-> args]

\* the colour a message names: AVAILABLE_COLORS.find
matchedColor(lowerMessage, normalizedMessage) ==
  LET inc(k) == includesChars(lowerMessage, Chars(k))
      colorMatches(c) ==
        LET colorName == toLowerCase(Chars(c.name))
            colorNameNormalized == normalizeGerman(colorName)
            colorId == toLowerCase(Chars(c.id))
            nameHas(k) == includesChars(colorName, Chars(k))
        IN  \/ includesChars(lowerMessage, colorName)
            \/ includesChars(normalizedMessage, colorNameNormalized)
            \/ includesChars(lowerMessage, colorId)
            \/ includesChars(normalizedMessage, dashesToSpaces(colorId))
            \/ nameHas("weiß") /\ (inc("weiß") \/ inc("weiss") \/ inc("white") \/ inc("alpin"))
            \/ nameHas("schwarz") /\ ~nameHas("saphir")
                 /\ (lowerMessage = Chars("schwarz") \/ lowerMessage = Chars("black"))
            \/ nameHas("saphir") /\ (inc("saphir") \/ inc("sapphire"))
            \/ nameHas("brooklyn") /\ inc("brooklyn")
            \/ nameHas("portimao") /\ inc("portimao")
            \/ nameHas("isle") /\ (inc("isle") \/ inc("man grün") \/ inc("man gruen"))
            \/ nameHas("frozen deep")
                 /\ (inc("frozen deep") \/ inc("frozen grey") \/ inc("frozen grau"))
            \/ nameHas("marina bay") /\ (inc("marina") \/ inc("bay blau"))
  IN  findBy(AVAILABLE_COLORS, colorMatches)

\* the wheel a message names: AVAILABLE_WHEELS.find
matchedWheel(lowerMessage) ==
  LET inc(k) == includesChars(lowerMessage, Chars(k))
      wheelMatches(w) ==
        LET wheelName == toLowerCase(Chars(w.name))
            nameHas(k) == includesChars(wheelName, Chars(k))
        IN  \/ includesChars(lowerMessage, wheelName)
            \/ includesChars(lowerMessage, toLowerCase(Chars(w.id)))
            \/ nameHas("doppelspeiche") /\ inc("doppelspeiche")
            \/ nameHas("sternspeiche") /\ inc("sternspeiche")
            \/ nameHas("y-speiche") /\ (inc("y-speiche") \/ inc("y speiche"))
            \/ nameHas("geschmiedet") /\ inc("geschmiedet")
  IN  findBy(AVAILABLE_WHEELS, wheelMatches)

\* the grill colour a message names: AVAILABLE_GRILL_COLORS.find
matchedGrill(lowerMessage) ==
  LET inc(k) == includesChars(lowerMessage, Chars(k))
      grillMatches(g) ==
        LET grillName == toLowerCase(Chars(g.name))
            nameHas(k) == includesChars(grillName, Chars(k))
        IN  \/ includesChars(lowerMessage, grillName)
            \/ includesChars(lowerMessage, toLowerCase(Chars(g.id)))
            \/ nameHas("chrom") /\ (inc("chrom") \/ inc("chrome") \/ inc("silber"))
            \/ nameHas("hochglanz") /\ (inc("hochglanz") \/ inc("glanz") \/ inc("gloss"))
            \/ nameHas("shadow") /\ (inc("shadow") \/ inc("schatten"))
            \/ nameHas("cerium") /\ (inc("cerium") \/ (inc("grau") /\ ~inc("brooklyn")))
            \/ nameHas("gold") /\ (inc("gold") \/ inc("bronze"))
  IN  findBy(AVAILABLE_GRILL_COLORS, grillMatches)

\* the hood pattern a message names: AVAILABLE_HOOD_PATTERNS.find
matchedHood(lowerMessage) ==
  LET inc(k) == includesChars(lowerMessage, Chars(k))
      hoodMatches(h) ==
        LET hoodName == toLowerCase(Chars(h.name))
            nameHas(k) == includesChars(hoodName, Chars(k))
        IN  \/ includesChars(lowerMessage, hoodName)
            \/ includesChars(lowerMessage, toLowerCase(Chars(h.id)))
            \/ nameHas("carbon") /\ (inc("carbon") \/ inc("karbon"))
            \/ nameHas("m streifen")
                 /\ (inc("m streifen") \/ inc("m-streifen") \/ inc("m stripe"))
            \/ nameHas("racing") /\ (inc("racing") \/ inc("rennstreifen") \/ inc("rennen"))
            \/ nameHas("matt") /\ (inc("matt") \/ inc("matte"))
            \/ nameHas("standard") /\ (inc("standard") \/ inc("normal") \/ inc("ohne"))
  IN  findBy(AVAILABLE_HOOD_PATTERNS, hoodMatches)

\* the keyword commands, from the colour commands down to the help text
keywordCommands(lowerMessage, currentConfig) ==
  LET inc(k) == includesChars(lowerMessage, Chars(k))
      priceNote(price) == IF price > 0 THEN "(+€" \o ToString(price) \o ")" ELSE ""
      validationReply(validation) ==
        Reply(IF validation.isValid
                THEN "Ihre Konfiguration ist gültig und kann so bestellt werden!"
                ELSE "Es gibt Probleme mit Ihrer Konfiguration:\n\n"
                     \o joinLines(getValidationExplanation(validation)),
              <<FunctionCall("validate_configuration", EmptyRecord)>>)
      hoodReply(hood) ==
        IF Len(hood) > 0
          THEN Reply("Ausgezeichnet! Ich ändere das Haubendesign auf **"
                       \o hood[1].name \o "**. " \o hood[1].description
                       \o " " \o priceNote(hood[1].price),
                     <<FunctionCall("change_hood_pattern",
                                    [hoodPatternId |-> hood[1].id]),
                       FunctionCall("move_camera", [position |-> "front"])>>)
          ELSE Reply("**Haubendesigns für Ihren M5:**",
                     <<FunctionCall("move_camera", [position |-> "front"])>>)
      grillReply(grill) ==
        IF Len(grill) > 0
          THEN Reply("Perfekt! Ich ändere die Nierenfarbe auf **"
                       \o grill[1].name \o "**. "
                       \o priceNote(grill[1].price),
                     <<FunctionCall("change_grill_color",
                                    [grillColorId |-> grill[1].id]),
                       FunctionCall("move_camera", [position |-> "front"])>>)
          ELSE Reply("**Nierenfarben für Ihren M5:**",
                     <<FunctionCall("move_camera", [position |-> "front"])>>)
      interiorChange(text, args) == Reply(text, <<FunctionCall("change_interior", args)>>)
      interiorReply ==
        IF inc("schwarz") \/ inc("black")
          THEN interiorChange("Ich ändere die Interieurfarbe auf **Schwarz**. Elegant und zeitlos!",
                              [color |-> "Schwarz"])
        ELSE IF inc("cognac") \/ inc("braun") \/ inc("brown")
          THEN interiorChange("Ich ändere die Interieurfarbe auf **Cognac**. Luxuriös und warm!",
                              [color |-> "Cognac"])
        ELSE IF inc("silverstone") \/ inc("silber") \/ inc("grau") \/ inc("grey")
          THEN interiorChange("Ich ändere die Interieurfarbe auf **Silverstone**. Modern und elegant!",
                              [color |-> "Silverstone"])
        ELSE IF inc("rot") \/ inc("red") \/ inc("fiona")
          THEN interiorChange("Ich ändere die Interieurfarbe auf **Fiona Rot**. Sportlich und ausdrucksstark!",
                              [color |-> "Fiona Rot"])
        ELSE IF inc("merino")
          THEN IF inc("extended")
                 THEN interiorChange("Ich ändere das Leder auf **Extended Merino**. Höchste Qualität für Ihren M5!",
                                     [leather |-> "extended-merino"])
                 ELSE interiorChange("Ich ändere das Leder auf **Merino**. Höchste Qualität für Ihren M5!",
                                     [leather |-> "merino"])
        ELSE IF inc("vernasca")
          THEN interiorChange("Ich ändere das Leder auf **Vernasca**. Strapazierfähig und elegant!",
                              [leather |-> "vernasca"])
        ELSE IF inc("carbon")
          THEN interiorChange("Ich ändere die Zierleisten auf **M Carbon**. Perfekt für den sportlichen Look!",
                              [trim |-> "carbon"])
        ELSE IF inc("holz") \/ inc("wood") \/ inc("eiche")
          THEN interiorChange("Ich ändere die Zierleisten auf **Edelholz Eiche**. Klassische Eleganz!",
                              [trim |-> "wood"])
        ELSE IF inc("aluminium") \/ inc("alu")
          THEN interiorChange("Ich ändere die Zierleisten auf **Aluminium Rhombicle**. Modern und technisch!",
                              [trim |-> "aluminum"])
        ELSE Reply("Hier sind die Interieur-Optionen für Ihren M5:",
                   <<FunctionCall("move_camera", [position |-> "interior"])>>)
      brakesReply ==
        IF inc("keramik") \/ inc("ceramic")
          THEN Reply("Ich ändere die Bremsen auf **Keramik-Verbundbremsanlage**. Ultimative Bremsleistung für die Rennstrecke!",
                     <<FunctionCall("change_brakes", [brakes |-> "ceramic"])>>)
        ELSE IF inc("performance") \/ inc("sport")
          THEN Reply("Ich ändere die Bremsen auf **M Performance Bremsen**. Verbesserte Bremsleistung für sportliches Fahren!",
                     <<FunctionCall("change_brakes", [brakes |-> "performance"])>>)
        ELSE IF inc("standard") \/ inc("normal")
          THEN Reply("Ich ändere die Bremsen auf **Standard**.",
                     <<FunctionCall("change_brakes", [brakes |-> "standard"])>>)
        ELSE Reply("**Bremssystem-Optionen:**", <<>>)
      packageReply ==
        IF inc("competition") \/ inc("comp")
          THEN Reply("Ich aktiviere das **M Competition Paket**. Maximale Performance mit 625 PS!",
                     <<FunctionCall("set_performance_package", [package |-> "competition"])>>)
        ELSE IF inc("performance") /\ ~inc("competition")
          THEN Reply("Ich aktiviere das **M Performance Paket**. Sportliche Verbesserungen für Ihren M5!",
                     <<FunctionCall("set_performance_package", [package |-> "performance"])>>)
        ELSE IF inc("kein") \/ inc("ohne") \/ inc("standard") \/ inc("none")
          THEN Reply("Ich entferne das Performance-Paket.",
                     <<FunctionCall("set_performance_package", [package |-> "none"])>>)
        ELSE Reply("**Performance-Pakete:**", <<>>)
      \* a wheel command that takes neither return goes on to the commands
      \* below it
      wheelCommand ==
        inc("felge") \/ inc("räder") \/ inc("raeder") \/ inc("wheel") \/ inc("rim")
  IN  IF (inc("farbe") \/ inc("color") \/ inc("lackierung"))
           /\ (inc("zeig") \/ inc("welche") \/ inc("verfügbar") \/ inc("optionen"))
        THEN Reply("Hier sind die verfügbaren Farben für Ihren M5:", <<>>)
      ELSE IF wheelCommand /\ (inc("standard") \/ inc("normal") \/ inc("basis"))
        THEN Reply("**Standard-Alufelgen sind für den BMW M5 nicht verfügbar.**",
                   <<FunctionCall("validate_configuration", EmptyRecord)>>)
      ELSE IF wheelCommand
                /\ (inc("zeig") \/ inc("welche") \/ inc("änder") \/ inc("aender"))
        THEN Reply("Für Ihren BMW M5 sind folgende Premium-Felgen verfügbar:",
                   <<FunctionCall("move_camera", [position |-> "wheels"])>>)
      ELSE IF inc("interieur") \/ inc("interior") \/ inc("innen") \/ inc("sitz") \/ inc("leder") \/ inc("leather")
        THEN interiorReply
      ELSE IF inc("brems") \/ inc("brake")
        THEN brakesReply
      ELSE IF inc("paket") \/ inc("package") \/ inc("competition")
        THEN packageReply
      ELSE IF inc("grill") \/ inc("niere") \/ inc("kühlergrill") \/ inc("kuehlergrill")
        THEN grillReply(matchedGrill(lowerMessage))
      ELSE IF inc("haube") \/ inc("hood") \/ inc("motorhaube") \/ inc("streifen") \/ inc("muster")
        THEN hoodReply(matchedHood(lowerMessage))
      ELSE IF inc("zeig") /\ inc("seite")
        THEN Reply("Ich drehe das Fahrzeug zur Seitenansicht.",
                   <<FunctionCall("move_camera", [position |-> "side"])>>)
      ELSE IF inc("vorne") \/ inc("front")
        THEN Reply("Hier ist die Frontansicht Ihres M5.",
                   <<FunctionCall("move_camera", [position |-> "front"])>>)
      ELSE IF inc("heck") \/ inc("hinten") \/ inc("rear")
        THEN Reply("Hier ist die Heckansicht Ihres M5.",
                   <<FunctionCall("move_camera", [position |-> "rear"])>>)
      ELSE IF inc("innen") /\ inc("zeig")
        THEN Reply("Hier ist der Innenraum Ihres M5.",
                   <<FunctionCall("move_camera", [position |-> "interior"])>>)
      ELSE IF inc("valid") \/ inc("prüf") \/ inc("check") \/ inc("gültig")
        THEN validationReply(validateConfiguration(currentConfig))
      ELSE Reply("Ich kann Ihnen bei der Konfiguration Ihres BMW M5 helfen:", <<>>)

\* variant: a matched wheel is taken whatever its type
handleDemoMode_AnyWheelType(userMessage, currentConfig) ==
  LET lowerMessage == toLowerCase(Chars(userMessage))
      normalizedMessage == normalizeGerman(lowerMessage)
      respond(color, wheel, commands) ==
        IF Len(color) > 0
          THEN Reply("Ausgezeichnete Wahl! Ich ändere die Farbe auf **" \o color[1].name
                       \o "**. "
                       \o (IF color[1].type = "frozen"
                             THEN "Dies ist eine exklusive BMW Individual Lackierung." ELSE ""),
                     <<FunctionCall("change_color", [colorId |-> color[1].id])>>)
        ELSE IF Len(wheel) > 0
          THEN Reply("Perfekt! Ich ändere die Felgen auf **" \o wheel[1].name \o "**. "
                       \o (IF wheel[1].type = "m-performance"
                             THEN "Eine exzellente Wahl für maximale Performance!"
                             ELSE "Sportliches M Design für Ihren M5!"),
                     <<FunctionCall("change_wheels", [wheelId |-> wheel[1].id]),
                       FunctionCall("move_camera", [position |-> "wheels"])>>)
        ELSE commands
  IN  respond(matchedColor(lowerMessage, normalizedMessage), matchedWheel(lowerMessage),
              keywordCommands(lowerMessage, currentConfig))

handleDemoMode(userMessage, currentConfig) ==
  LET lowerMessage == toLowerCase(Chars(userMessage))
      normalizedMessage == normalizeGerman(lowerMessage)
      respond(color, wheel, commands) ==
        IF Len(color) > 0
          THEN Reply("Ausgezeichnete Wahl! Ich ändere die Farbe auf **" \o color[1].name
                       \o "**. "
                       \o (IF color[1].type = "frozen"
                             THEN "Dies ist eine exklusive BMW Individual Lackierung." ELSE ""),
                     <<FunctionCall("change_color", [colorId |-> color[1].id])>>)
        ELSE IF Len(wheel) > 0 /\ wheel[1].type # "standard"
          THEN Reply("Perfekt! Ich ändere die Felgen auf **" \o wheel[1].name \o "**. "
                       \o (IF wheel[1].type = "m-performance"
                             THEN "Eine exzellente Wahl für maximale Performance!"
                             ELSE "Sportliches M Design für Ihren M5!"),
                     <<FunctionCall("change_wheels", [wheelId |-> wheel[1].id]),
                       FunctionCall("move_camera", [position |-> "wheels"])>>)
        ELSE commands
  IN  respond(matchedColor(lowerMessage, normalizedMessage), matchedWheel(lowerMessage),
              keywordCommands(lowerMessage, currentConfig))

\* handleDemoMode reads currentConfig only to answer a validation request:
\* its replies to the user messages, evaluated once
VALIDATION_REQUEST == "Konfiguration prüfen"

DEMO_REPLIES == [t \in UserMessages \ {VALIDATION_REQUEST} |-> handleDemoMode(t, DEFAULT_CONFIG)]

demoReply(userMessage, currentConfig) ==
  IF userMessage \in UserMessages \ {VALIDATION_REQUEST}
    THEN DEMO_REPLIES[userMessage]
    ELSE handleDemoMode(userMessage, currentConfig)

(***************************************************************************)
(* ChatPanel.handleSubmit                                                  *)
(***************************************************************************)
\* the loop over response.functionCalls: the store after the camera and
\* overlay calls, and the accumulated configUpdate. closureConfig is the
\* config the handleSubmit closure captured.
executeFunctionCalls(s, functionCalls, closureConfig) ==
  LET \* one iteration: what the result of a call does to the store and to
      \* the accumulated configUpdate
      apply(acc, result) ==
        LET moved == IF "cameraPosition" \in DOMAIN result
                          /\ Truthy(result.cameraPosition)
                       THEN setCameraPosition(acc.store, result.cameraPosition)
                       ELSE acc.store
        IN  [store |-> IF "showValidation" \in DOMAIN result /\ result.showValidation
                         THEN toggleValidationOverlay(moved)
                         ELSE moved,
             configUpdate |-> IF "configUpdate" \in DOMAIN result
                                THEN Spread(acc.configUpdate, result.configUpdate)
                                ELSE acc.configUpdate]
      RECURSIVE loop(_, _)
      loop(i, acc) ==
        IF i > Len(functionCalls)
          THEN acc
          ELSE loop(i + 1,
                    apply(acc, executeOpenAIFunctionCall(functionCalls[i].name,
                                                         functionCalls[i].args,
                                                         closureConfig)))
  IN  loop(1, [store |-> s, configUpdate |-> EmptyRecord])

\* handleSubmit after the await: execute the calls, apply the config
\* updates, add the assistant message, and (finally) clear the loading flag
applyResponse(s, response, closureConfig) ==
  LET update(executed) ==
        IF DOMAIN executed.configUpdate # {}
          THEN updateConfig(executed.store, executed.configUpdate)
          ELSE executed.store
      updated == update(executeFunctionCalls(s, response.functionCalls, closureConfig))
      answered == addMessage(updated, [role |-> "assistant", content |-> response.message])
  IN  setLoading(answered, FALSE)

(***************************************************************************)
(* The store as a state machine                                            *)
(***************************************************************************)
\* the current store state, and the step that replaces it
Store ==
  [config |-> config, validationResult |-> validationResult,
   messages |-> messages, ui |-> ui]

Becomes(s) ==
  /\ config' = s.config
  /\ validationResult' = s.validationResult
  /\ messages' = s.messages
  /\ ui' = s.ui

\* no handleSubmit in flight
CHAT_IDLE == [pc |-> "idle"]

\* one call of a store action from outside (a component or a test)
Call(opName, a, s) ==
  /\ steps < MaxSteps
  /\ steps' = steps + 1
  /\ last' = [op |-> opName, arg |-> a]
  /\ Becomes(s)
  /\ UNCHANGED chat

\* arguments the callers pass: every catalog identifier and one unknown one
ColorIdInputs == Ids(AVAILABLE_COLORS) \cup {"no-such-color"}
WheelIdInputs == Ids(AVAILABLE_WHEELS) \cup {"no-such-wheel"}
GrillColorIdInputs == Ids(AVAILABLE_GRILL_COLORS) \cup {"no-such-grill"}
HoodPatternIdInputs == Ids(AVAILABLE_HOOD_PATTERNS) \cup {"no-such-hood"}
InteriorObjects ==
  [leather : Leathers, color : {"black", "cognac"}, trim : Trims]

\* the values a Partial<CarConfig> may carry for a field
FieldValues(f) ==
  CASE f = "model" -> Models
    [] f = "performancePackage" -> PerformancePackages
    [] f = "color" -> Range(AVAILABLE_COLORS)
    [] f = "wheels" -> Range(AVAILABLE_WHEELS)
    [] f = "brakes" -> BrakeTypes
    [] f = "interior" -> InteriorObjects
    [] f = "lights" -> Lights
    [] f = "sound" -> Sounds
    [] f = "drivingAssistant" -> DrivingAssistants
    [] f = "grillColor" -> Range(AVAILABLE_GRILL_COLORS)
    [] f = "hoodPattern" -> Range(AVAILABLE_HOOD_PATTERNS)

ConfigFields == DOMAIN DEFAULT_CONFIG

Do_updateConfig ==
  \/ \E f \in ConfigFields : \E v \in FieldValues(f) :
       LET updates == [k \in {f} |-> v]
       IN  Call("updateConfig", updates, updateConfig(Store, updates))
  \/ \E b \in BrakeTypes : \E p \in PerformancePackages :
       LET updates == [brakes |-> b, performancePackage |-> p]
       IN  Call("updateConfig", updates, updateConfig(Store, updates))

Do_setColor ==
  \E id \in ColorIdInputs : Call("setColor", id, setColor(Store, id))

Do_setWheels ==
  \E id \in WheelIdInputs : Call("setWheels", id, setWheels(Store, id))

Do_setInterior ==
  \/ \E v \in Leathers :
       Call("setInterior", [leather |-> v], setInterior(Store, [leather |-> v]))
  \/ \E v \in Trims :
       Call("setInterior", [trim |-> v], setInterior(Store, [trim |-> v]))
  \/ \E v \in Ids(INTERIOR_COLORS) :
       Call("setInterior", [color |-> v], setInterior(Store, [color |-> v]))
  \/ \E l \in Leathers : \E t \in Trims :
       Call("setInterior", [leather |-> l, trim |-> t],
            setInterior(Store, [leather |-> l, trim |-> t]))

Do_setPerformancePackage ==
  \E pkg \in PerformancePackages :
    Call("setPerformancePackage", pkg, setPerformancePackage(Store, pkg))

Do_setBrakes ==
  \E b \in BrakeTypes : Call("setBrakes", b, setBrakes(Store, b))

Do_setGrillColor ==
  \E id \in GrillColorIdInputs : Call("setGrillColor", id, setGrillColor(Store, id))

Do_setHoodPattern ==
  \E id \in HoodPatternIdInputs : Call("setHoodPattern", id, setHoodPattern(Store, id))

Do_resetConfig == Call("resetConfig", "", resetConfig(Store))

Do_addMessage ==
  \E role \in {"user", "assistant"} : \E content \in {"Alpinweiß", "Keramik Bremsen"} :
    LET message == [role |-> role, content |-> content]
    IN  Call("addMessage", message, addMessage(Store, message))

Do_clearMessages == Call("clearMessages", "", clearMessages(Store))

Do_setLoading == \E b \in BOOLEAN : Call("setLoading", b, setLoading(Store, b))

Do_setRecording == \E b \in BOOLEAN : Call("setRecording", b, setRecording(Store, b))

Do_setActivePanel ==
  \E panel \in ActivePanels : Call("setActivePanel", panel, setActivePanel(Store, panel))

Do_setCameraPosition ==
  \E position \in CameraPositions :
    Call("setCameraPosition", position, setCameraPosition(Store, position))

Do_toggleValidationOverlay ==
  Call("toggleValidationOverlay", "", toggleValidationOverlay(Store))

Do_revalidate == Call("revalidate", "", revalidate(Store))

Init ==
  /\ config = INITIAL_STORE.config
  /\ validationResult = INITIAL_STORE.validationResult
  /\ messages = INITIAL_STORE.messages
  /\ ui = INITIAL_STORE.ui
  /\ last = [op |-> "create", arg |-> ""]
  /\ steps = 0
  /\ chat = CHAT_IDLE

Next ==
  \/ Do_updateConfig
  \/ Do_setColor
  \/ Do_setWheels
  \/ Do_setInterior
  \/ Do_setPerformancePackage
  \/ Do_setBrakes
  \/ Do_setGrillColor
  \/ Do_setHoodPattern
  \/ Do_resetConfig
  \/ Do_addMessage
  \/ Do_clearMessages
  \/ Do_setLoading
  \/ Do_setRecording
  \/ Do_setActivePanel
  \/ Do_setCameraPosition
  \/ Do_toggleValidationOverlay
  \/ Do_revalidate

Spec == Init /\ [][Next]_vars

(***************************************************************************)
(* C1: in every reachable store state the stored validationResult is the   *)
(* validation of the stored config.                                        *)
(***************************************************************************)
C1_ValidationInStep == validationResult = validateConfiguration(config)

\* a configuration other than the default one has been stored and its
\* validation reports a violation
C1_Witness ==
  /\ last.op \in {"updateConfig", "setBrakes", "setInterior", "setWheels"}
  /\ config # DEFAULT_CONFIG
  /\ validationResult.totalViolations > 0

(***************************************************************************)
(* The validation engine over every configuration of the option space:     *)
(* the store is handed one complete configuration by updateConfig.         *)
(***************************************************************************)
\* every configuration over the dimensions the rules read; the dimensions no
\* rule reads keep their default value
AllConfigs ==
  [model : Models,
   performancePackage : PerformancePackages,
   color : Range(AVAILABLE_COLORS),
   wheels : Range(AVAILABLE_WHEELS),
   brakes : BrakeTypes,
   interior : [leather : Leathers, color : {DEFAULT_CONFIG.interior.color}, trim : Trims],
   lights : Lights,
   sound : Sounds,
   drivingAssistant : DrivingAssistants,
   grillColor : {DEFAULT_CONFIG.grillColor},
   hoodPattern : {DEFAULT_CONFIG.hoodPattern}]

\* the first call on the freshly constructed store
Do_loadConfig ==
  /\ steps = 0
  /\ \E cfg \in AllConfigs : Call("updateConfig", cfg, updateConfig(Store, cfg))

NextValidate == Do_loadConfig

SpecValidate == Init /\ [][NextValidate]_vars

\* a complete configuration has been stored and validated
Loaded == last.op = "updateConfig" /\ DOMAIN last.arg = ConfigFields

(***************************************************************************)
(* C2: isValid is true exactly when the blockers list is empty, and the    *)
(* warn-severity rules have no influence on it: validating against the     *)
(* block-severity rules alone gives the same verdict.                      *)
(***************************************************************************)
BlockRulesOnly == SelectSeq(BMW_M5_CONSTRAINTS, LAMBDA r : r.severity = "block")

C2_ValidIffNoBlockers ==
  /\ validationResult.isValid <=> (Len(validationResult.blockers) = 0)
  /\ validationResult.isValid = validateWith(BlockRulesOnly, config).isValid

\* a validated configuration with a warning and no blocker is valid
C2_Witness ==
  /\ Loaded
  /\ Len(validationResult.warnings) > 0
  /\ Len(validationResult.blockers) = 0
  /\ validationResult.isValid

(***************************************************************************)
(* C3: totalViolations is the number of blockers plus the number of        *)
(* warnings.                                                               *)
(***************************************************************************)
C3_CountInvariant ==
  validationResult.totalViolations =
    Len(validationResult.blockers) + Len(validationResult.warnings)

\* a validated configuration with both blockers and warnings
C3_Witness ==
  /\ Loaded
  /\ Len(validationResult.blockers) > 1
  /\ Len(validationResult.warnings) > 1

(***************************************************************************)
(* C4: a rule is in blockers exactly when its condition holds and its      *)
(* severity is block, in warnings exactly when its condition holds and its *)
(* severity is warn; no rule is in both lists or listed twice; each list   *)
(* keeps the declaration order; reordering the rule set changes neither    *)
(* isValid nor the set of rules reported.                                  *)
(***************************************************************************)
\* position of a rule in the declared rule set
RuleIndex(rule) == CHOOSE i \in 1..Len(BMW_M5_CONSTRAINTS) : BMW_M5_CONSTRAINTS[i] = rule

NoDuplicates(seq) == \A i, j \in 1..Len(seq) : seq[i] = seq[j] => i = j

InDeclarationOrder(seq) ==
  \A i, j \in 1..Len(seq) : i < j => RuleIndex(seq[i]) < RuleIndex(seq[j])

\* reorderings of the rule set: reversed, rotated by k places (the three
\* warn-severity rules first), and the odd positions before the even ones
Reversed(seq) == [i \in 1..Len(seq) |-> seq[Len(seq) + 1 - i]]
Rotated(seq, k) == [i \in 1..Len(seq) |-> seq[((i - 1 + k) % Len(seq)) + 1]]
OddsFirst(seq) ==
  LET half == (Len(seq) + 1) \div 2
  IN  [i \in 1..Len(seq) |-> IF i <= half THEN seq[2 * i - 1] ELSE seq[2 * (i - half)]]
Reorderings ==
  {Reversed(BMW_M5_CONSTRAINTS), Rotated(BMW_M5_CONSTRAINTS, 5), OddsFirst(BMW_M5_CONSTRAINTS)}

C4_Partition ==
  LET r == validationResult
  IN  /\ \A rule \in Range(BMW_M5_CONSTRAINTS) :
           /\ rule \in Range(r.blockers)
                <=> (condition(rule, config) /\ rule.severity = "block")
           /\ rule \in Range(r.warnings)
                <=> (condition(rule, config) /\ rule.severity = "warn")
      /\ Range(r.blockers) \cup Range(r.warnings) \subseteq Range(BMW_M5_CONSTRAINTS)
      /\ Range(r.blockers) \cap Range(r.warnings) = {}
      /\ NoDuplicates(r.blockers)
      /\ NoDuplicates(r.warnings)
      /\ InDeclarationOrder(r.blockers)
      /\ InDeclarationOrder(r.warnings)
      /\ \A q \in {validateWith(rules, config) : rules \in Reorderings} :
           /\ q.isValid = r.isValid
           /\ Range(q.blockers) = Range(r.blockers)
           /\ Range(q.warnings) = Range(r.warnings)

\* a validated configuration with several blockers and several warnings,
\* whose lists a reordering of the rules does reorder
C4_Witness ==
  /\ Loaded
  /\ Len(validationResult.blockers) > 1
  /\ Len(validationResult.warnings) > 1
  /\ validateWith(Reversed(BMW_M5_CONSTRAINTS), config).blockers
       # validationResult.blockers

(***************************************************************************)
(* C5: the default configuration validates with no blocker and no warning, *)
(* so the initial store state is valid and its explanation is the fixed    *)
(* 'fully valid' sentence.                                                 *)
(***************************************************************************)
C5_DefaultBaseline ==
  config = DEFAULT_CONFIG =>
    /\ Len(validationResult.blockers) = 0
    /\ Len(validationResult.warnings) = 0
    /\ validationResult.totalViolations = 0
    /\ validationResult.isValid
    /\ getValidationExplanation(validationResult) = <<VALID_SENTENCE>>

\* the store right after construction
C5_Witness ==
  /\ last.op = "create"
  /\ config = DEFAULT_CONFIG
  /\ validationResult.isValid

(***************************************************************************)
(* C9: with model = M5 and a wheel whose identifier is not an M-series     *)
(* identifier the result is invalid and has a blocker of category wheels,  *)
(* and every such blocker suggests the identifier of an M-series wheel of  *)
(* AVAILABLE_WHEELS.                                                       *)
(***************************************************************************)
\* the M-series wheels of the catalog: M Sport and M Performance
MSeriesWheelIds ==
  {w.id : w \in {x \in Range(AVAILABLE_WHEELS) : x.type \in {"m-sport", "m-performance"}}}

C9_NonMWheelBlocked ==
  (config.model = "M5" /\ config.wheels.id \notin MSeriesWheelIds) =>
    /\ ~validationResult.isValid
    /\ \E b \in Range(validationResult.blockers) : b.category = "wheels"
    /\ \A b \in Range(validationResult.blockers) :
         b.category = "wheels" =>
           /\ b.suggestedAlternative \in Ids(AVAILABLE_WHEELS)
           /\ b.suggestedAlternative \in MSeriesWheelIds
           /\ startsWith(b.suggestedAlternative, "m-")

\* an M5 with the standard wheels has been validated
C9_Witness ==
  /\ Loaded
  /\ config.model = "M5"
  /\ config.wheels.id = "standard-19"
  /\ ~validationResult.isValid

(***************************************************************************)
(* C10: the result has a blocker of category brakes exactly when           *)
(* brakes = ceramic and performancePackage = none, whatever the other      *)
(* dimensions are.                                                         *)
(***************************************************************************)
C10_CeramicNeedsPackage ==
  (\E b \in Range(validationResult.blockers) : b.category = "brakes")
    <=> (config.brakes = "ceramic" /\ config.performancePackage = "none")

\* ceramic brakes without a package on an otherwise unobjectionable M5
C10_Witness ==
  /\ Loaded
  /\ config.brakes = "ceramic"
  /\ config.performancePackage = "none"
  /\ Len(validationResult.blockers) = 1
  /\ validationResult.blockers[1].category = "brakes"

(***************************************************************************)
(* C11: a configuration whose colour is classified individual or frozen    *)
(* and whose model is not M5 is invalid and has a blocker of category      *)
(* color; a configuration whose model is M5 never has a blocker of         *)
(* category color, whatever its colour.                                    *)
(***************************************************************************)
ExclusiveColorTypes == {"individual", "frozen"}

ColorBlocked(result) == \E b \in Range(result.blockers) : b.category = "color"

C11_FrozenColorNeedsM5 ==
  /\ (config.color.type \in ExclusiveColorTypes /\ config.model # "M5") =>
       /\ ColorBlocked(validationResult)
       /\ ~validationResult.isValid
  /\ config.model = "M5" => ~ColorBlocked(validationResult)
  /\ \A w \in Range(validationResult.warnings) : w.category # "color"

\* a frozen colour on the 5-series has been validated and is blocked
C11_Witness ==
  /\ Loaded
  /\ config.model = "5-series"
  /\ config.color.type = "frozen"
  /\ ColorBlocked(validationResult)

(***************************************************************************)
(* C12: with performancePackage = competition the M_COMPETITION_21_INCH    *)
(* blocker is raised exactly when the size of the selected catalog wheel   *)
(* is not 21; with any other package it is never raised.                   *)
(***************************************************************************)
Raised(ruleId, rules) == \E r \in Range(rules) : r.id = ruleId

C12_CompetitionNeeds21Inch ==
  /\ config.wheels \in Range(AVAILABLE_WHEELS)
  /\ config.performancePackage = "competition" =>
       (Raised("M_COMPETITION_21_INCH", validationResult.blockers)
          <=> config.wheels.size # 21)
  /\ config.performancePackage # "competition" =>
       ~Raised("M_COMPETITION_21_INCH", validationResult.blockers)
  /\ ~Raised("M_COMPETITION_21_INCH", validationResult.warnings)

\* the competition package with the 20 inch M wheel has been validated: the
\* wheel passes the M-wheel rule and is blocked for its size alone
C12_Witness ==
  /\ Loaded
  /\ config.performancePackage = "competition"
  /\ config.wheels.size = 20
  /\ Raised("M_COMPETITION_21_INCH", validationResult.blockers)
  /\ ~Raised("M5_REQUIRES_M_WHEELS", validationResult.blockers)

(***************************************************************************)
(* C13: CARBON_TRIM_PERFORMANCE is reported exactly when interior trim is  *)
(* carbon and performancePackage is none, always among the warnings and    *)
(* never among the blockers; such a configuration is valid whenever no     *)
(* block-severity rule triggers on it.                                     *)
(***************************************************************************)
NoBlockRuleTriggers(cfg) ==
  \A i \in 1..Len(BMW_M5_CONSTRAINTS) :
    BMW_M5_CONSTRAINTS[i].severity = "block" => ~condition(BMW_M5_CONSTRAINTS[i], cfg)

C13_CarbonTrimWarns ==
  /\ Raised("CARBON_TRIM_PERFORMANCE", validationResult.warnings)
       <=> (config.interior.trim = "carbon" /\ config.performancePackage = "none")
  /\ ~Raised("CARBON_TRIM_PERFORMANCE", validationResult.blockers)
  /\ (config.interior.trim = "carbon" /\ config.performancePackage = "none") =>
       /\ \E w \in Range(validationResult.warnings) :
            w.id = "CARBON_TRIM_PERFORMANCE" /\ w.severity = "warn"
       /\ NoBlockRuleTriggers(config) => validationResult.isValid

\* carbon trim without a package on a configuration no block rule objects
\* to: it carries the warning and is still valid
C13_Witness ==
  /\ Loaded
  /\ config.interior.trim = "carbon"
  /\ config.performancePackage = "none"
  /\ validationResult.isValid
  /\ Raised("CARBON_TRIM_PERFORMANCE", validationResult.warnings)


(***************************************************************************)
(* C14: for every rule that triggers on a configuration, storing the       *)
(* rule's suggestedAlternative in the dimension its category names gives   *)
(* a configuration on which that rule does not trigger.  The alternative   *)
(* is stored through the store's own operation for that dimension; where a *)
(* category covers several dimensions (interior, tech) the alternative is  *)
(* stored in every one of them that declares it as a value.                *)
(***************************************************************************)
ApplyAlternative(s, rule) ==
  LET alt == rule.suggestedAlternative
  IN  CASE rule.category = "wheels" -> {setWheels(s, alt)}
        [] rule.category = "color" -> {setColor(s, alt)}
        [] rule.category = "brakes" ->
             IF alt \in BrakeTypes THEN {setBrakes(s, alt)} ELSE {}
        [] rule.category = "interior" ->
             (IF alt \in Leathers THEN {setInterior(s, [leather |-> alt])} ELSE {})
             \cup (IF alt \in Trims THEN {setInterior(s, [trim |-> alt])} ELSE {})
             \cup (IF alt \in Ids(INTERIOR_COLORS)
                     THEN {setInterior(s, [color |-> alt])} ELSE {})
        [] rule.category = "tech" ->
             (IF alt \in Lights THEN {updateConfig(s, [lights |-> alt])} ELSE {})
             \cup (IF alt \in Sounds THEN {updateConfig(s, [sound |-> alt])} ELSE {})
             \cup (IF alt \in DrivingAssistants
                     THEN {updateConfig(s, [drivingAssistant |-> alt])} ELSE {})

C14_AlternativeResolvesRule ==
  \A rule \in Range(validationResult.blockers \o validationResult.warnings) :
    LET fixed == ApplyAlternative(Store, rule)
    IN  /\ condition(rule, config)
        /\ fixed # {}
        /\ \A f \in fixed :
             /\ f.config # config
             /\ ~condition(rule, f.config)
             /\ ~Raised(rule.id, f.validationResult.blockers \o f.validationResult.warnings)

\* a configuration on which rules of four categories trigger at once
C14_Witness ==
  /\ Loaded
  /\ Raised("M5_REQUIRES_M_WHEELS", validationResult.blockers)
  /\ Raised("M_COMPETITION_21_INCH", validationResult.blockers)
  /\ Raised("DRIVING_ASSIST_PRO_LASER", validationResult.warnings)
  /\ Raised("HARMAN_KARDON_MIN", validationResult.warnings)
  /\ config.brakes = "ceramic"

(***************************************************************************)
(* Changes of the dimensions no rule reads, from every configuration of    *)
(* the option space: the second call on the store.                         *)
(***************************************************************************)
Do_changeUnread ==
  /\ steps = 1
  /\ \/ \E id \in Ids(AVAILABLE_GRILL_COLORS) :
          Call("setGrillColor", id, setGrillColor(Store, id))
     \/ \E id \in Ids(AVAILABLE_HOOD_PATTERNS) :
          Call("setHoodPattern", id, setHoodPattern(Store, id))
     \/ \E id \in Ids(INTERIOR_COLORS) :
          Call("setInterior", [color |-> id], setInterior(Store, [color |-> id]))

NextUnread == Do_loadConfig \/ Do_changeUnread

SpecUnread == Init /\ [][NextUnread]_vars

(***************************************************************************)
(* C15: a step that changes only grillColor, hoodPattern or interior.color *)
(* leaves isValid, blockers, warnings and totalViolations as they were,    *)
(* from every configuration.                                               *)
(***************************************************************************)
UnreadChange ==
  \/ last.op \in {"setGrillColor", "setHoodPattern"}
  \/ last.op = "setInterior" /\ DOMAIN last.arg = {"color"}

C15_UnreadDimensionsIrrelevant ==
  [][ UnreadChange' =>
        /\ validationResult'.isValid = validationResult.isValid
        /\ validationResult'.blockers = validationResult.blockers
        /\ validationResult'.warnings = validationResult.warnings
        /\ validationResult'.totalViolations = validationResult.totalViolations
        /\ validationResult' = validateConfiguration(config')
    ]_vars

\* the three unread dimensions have each been changed on an invalid
\* configuration that also carries a warning
C15_Witness ==
  /\ UnreadChange
  /\ steps = 2
  /\ \/ config.grillColor # DEFAULT_CONFIG.grillColor
     \/ config.hoodPattern # DEFAULT_CONFIG.hoodPattern
     \/ config.interior.color # DEFAULT_CONFIG.interior.color
  /\ ~validationResult.isValid
  /\ Len(validationResult.warnings) > 0

(***************************************************************************)
(* C16: the validationResult the store holds depends on the current config *)
(* alone and not on the calls that led to it: it is the result a freshly   *)
(* constructed store holds after being handed the same config in one       *)
(* call, the result the store holds when it is reset and handed the config *)
(* again, and the result of validating once more.  Any two reachable       *)
(* stores with equal configs therefore hold equal results.                 *)
(***************************************************************************)
C16_HistoryIndependent ==
  /\ updateConfig(INITIAL_STORE, config).validationResult = validationResult
  /\ updateConfig(resetConfig(Store), config).validationResult = validationResult
  /\ revalidate(Store).validationResult = validationResult
  /\ revalidate(revalidate(Store)) = revalidate(Store)

\* a configuration reached by two calls, the second one setBrakes, on which
\* rules trigger
C16_Witness ==
  /\ steps = 2
  /\ last.op = "setBrakes"
  /\ config.brakes = "ceramic"
  /\ config.wheels # DEFAULT_CONFIG.wheels
  /\ validationResult.totalViolations > 0

(***************************************************************************)
(* C17: resetConfig, called in any reachable store state, leaves config    *)
(* equal to DEFAULT_CONFIG and validationResult equal to its validation,   *)
(* which is valid, and leaves messages and ui as they were.                *)
(***************************************************************************)
C17_ResetRestoresDefault ==
  [][ last'.op = "resetConfig" =>
        /\ config' = DEFAULT_CONFIG
        /\ validationResult' = validateConfiguration(DEFAULT_CONFIG)
        /\ validationResult'.isValid
        /\ validationResult'.totalViolations = 0
        /\ UNCHANGED <<messages, ui>>
    ]_vars

\* resetConfig has been called on a store whose ui or messages were changed
\* by the call before it
C17_Witness ==
  /\ last.op = "resetConfig"
  /\ steps = 2
  /\ config = DEFAULT_CONFIG
  /\ \/ ui # INITIAL_UI
     \/ messages # <<WELCOME>>

(***************************************************************************)
(* C18: getValidationExplanation returns the fixed sentence for every      *)
(* result that is valid and has no warnings, whatever configuration        *)
(* produced it, and a text other than that sentence (and not containing it *)
(* as a line) for every result with at least one blocker or warning.       *)
(***************************************************************************)
FullyValid(result) == result.isValid /\ Len(result.warnings) = 0

C18_FixedSentenceIffFullyValid ==
  LET text == getValidationExplanation(validationResult)
  IN  /\ FullyValid(validationResult) => text = <<VALID_SENTENCE>>
      /\ (Len(validationResult.blockers) > 0 \/ Len(validationResult.warnings) > 0) =>
           /\ text # <<VALID_SENTENCE>>
           /\ VALID_SENTENCE \notin Range(text)
      /\ (text = <<VALID_SENTENCE>>) <=> (validationResult.totalViolations = 0)

\* a configuration other than the default one is fully valid and explained
\* by the fixed sentence
C18_Witness ==
  /\ Loaded
  /\ config # DEFAULT_CONFIG
  /\ config.model = "5-series"
  /\ FullyValid(validationResult)
  /\ getValidationExplanation(validationResult) = <<VALID_SENTENCE>>

(***************************************************************************)
(* The lines of an explanation                                             *)
(***************************************************************************)
BLOCKERS_HEADER == "Diese Konfiguration kann nicht bestellt werden:"
WARNINGS_HEADER == "Hinweise:"

MessageLine(rule) == "- " \o rule.message

MessageLinesOf(rules) == [i \in 1..Len(rules) |-> MessageLine(rules[i])]

AllMessageLines == {MessageLine(r) : r \in Range(BMW_M5_CONSTRAINTS)}

IsMessageLine(l) == l \in AllMessageLines

\* a header is a line with text that is not the message of a rule
IsHeaderLine(l) == l # "" /\ ~IsMessageLine(l)

(***************************************************************************)
(* C19 as stated: for every result that is not fully valid the explanation *)
(* starts with a header line, the message lines are the blockers' messages *)
(* in blocker order followed by the warnings' messages in warning order,   *)
(* and when there are warnings a blank separator stands after the header   *)
(* and the blocker lines and before the warning lines.                     *)
(***************************************************************************)
C19_HeaderFirst ==
  ~FullyValid(validationResult) =>
    LET text == getValidationExplanation(validationResult)
        b == MessageLinesOf(validationResult.blockers)
        w == MessageLinesOf(validationResult.warnings)
    IN  /\ Len(text) >= 1
        /\ IsHeaderLine(text[1])
        /\ SelectSeq(text, IsMessageLine) = b \o w
        /\ Len(w) > 0 =>
             \E i \in (Len(b) + 2)..Len(text) :
               /\ text[i] = ""
               /\ \A j \in 1..Len(text) : text[j] \in Range(w) => i < j

(***************************************************************************)
(* C19 as amended: for every result that is not fully valid the            *)
(* explanation is, if there are blockers, the header line followed by one  *)
(* line per blocker's message in blocker order, and then, if there are     *)
(* warnings, a blank line, the line 'Hinweise:' and one line per warning's *)
(* message in warning order.  A result with warnings only starts with the  *)
(* blank line; a result with blockers only has no blank line.  The number  *)
(* of message lines is totalViolations and every blocker line precedes     *)
(* every warning line.                                                     *)
(***************************************************************************)
C19_SectionsInOrder ==
  ~FullyValid(validationResult) =>
    LET text == getValidationExplanation(validationResult)
        b == MessageLinesOf(validationResult.blockers)
        w == MessageLinesOf(validationResult.warnings)
        blockerSection == IF Len(b) > 0 THEN <<BLOCKERS_HEADER>> \o b ELSE <<>>
        warningSection == IF Len(w) > 0 THEN <<"", WARNINGS_HEADER>> \o w ELSE <<>>
    IN  /\ text = blockerSection \o warningSection
        /\ SelectSeq(text, IsMessageLine) = b \o w
        /\ Len(SelectSeq(text, IsMessageLine)) = validationResult.totalViolations
        /\ \A i, j \in 1..Len(text) :
             (text[i] \in Range(b) /\ text[j] \in Range(w)) => i < j
        /\ (text[1] = BLOCKERS_HEADER) <=> (Len(b) > 0)
        /\ (text[1] = "") <=> (Len(b) = 0)
        /\ ("" \in Range(text)) <=> (Len(w) > 0)

\* a valid configuration with two warnings and no blocker: its explanation
\* starts with the blank line and 'Hinweise:'
C19_Witness ==
  /\ Loaded
  /\ validationResult.isValid
  /\ Len(validationResult.warnings) >= 2
  /\ getValidationExplanation(validationResult)[1] = ""
  /\ getValidationExplanation(validationResult)[2] = WARNINGS_HEADER

(***************************************************************************)
(* C20: suggestFixes emits exactly one suggestion for each violated rule   *)
(* that carries a suggestedAlternative and none for a rule without one,    *)
(* those of the blockers first, in blocker order, then those of the        *)
(* warnings, in warning order.  The suggestion of a rule is what           *)
(* suggestFixes emits for a result holding that rule alone; the            *)
(* suggestions of different rules differ, so each can be told apart.       *)
(***************************************************************************)
\* the rule table with the alternative missing from, or empty in, some rules
WithoutAlternative(rule) ==
  [k \in (DOMAIN rule) \ {"suggestedAlternative"} |-> rule[k]]

RULES_SOME_WITHOUT_ALTERNATIVE ==
  [i \in 1..Len(BMW_M5_CONSTRAINTS) |->
     IF i \in {1, 3, 7} THEN WithoutAlternative(BMW_M5_CONSTRAINTS[i])
     ELSE IF i = 5 THEN [BMW_M5_CONSTRAINTS[i] EXCEPT !.suggestedAlternative = ""]
     ELSE BMW_M5_CONSTRAINTS[i]]

CarriesAlternative(rule) == Truthy(Get(rule, "suggestedAlternative"))

SuggestionOf(rule) ==
  suggestFixes([isValid |-> FALSE, blockers |-> <<rule>>, warnings |-> <<>>,
                totalViolations |-> 1], DEFAULT_CONFIG)

RECURSIVE Concat(_)
Concat(seqs) == IF seqs = <<>> THEN <<>> ELSE Head(seqs) \o Concat(Tail(seqs))

\* the suggestions of the eight rules, each taken alone
ALL_SUGGESTIONS ==
  Concat([i \in 1..Len(BMW_M5_CONSTRAINTS) |-> SuggestionOf(BMW_M5_CONSTRAINTS[i])])

OneSuggestionPerRule(result, cfg) ==
  LET rules == result.blockers \o result.warnings
      out == suggestFixes(result, cfg)
  IN  /\ \A i \in 1..Len(rules) :
           Len(SuggestionOf(rules[i])) = (IF CarriesAlternative(rules[i]) THEN 1 ELSE 0)
      /\ out = Concat([i \in 1..Len(rules) |-> SuggestionOf(rules[i])])
      /\ Len(out) = Len(SelectSeq(rules, CarriesAlternative))
      /\ NoDuplicates(out)

C20_OneSuggestionPerRule ==
  /\ OneSuggestionPerRule(validationResult, config)
  /\ Len(suggestFixes(validationResult, config)) = validationResult.totalViolations
  /\ OneSuggestionPerRule(validateWith(RULES_SOME_WITHOUT_ALTERNATIVE, config), config)
  /\ Len(ALL_SUGGESTIONS) = Len(BMW_M5_CONSTRAINTS)
  /\ NoDuplicates(ALL_SUGGESTIONS)

\* a configuration with two blockers and two warnings: four suggestions
C20_Witness ==
  /\ Loaded
  /\ Len(validationResult.blockers) = 2
  /\ Len(validationResult.warnings) = 2
  /\ Len(suggestFixes(validationResult, config)) = 4
  /\ Len(suggestFixes(validateWith(RULES_SOME_WITHOUT_ALTERNATIVE, config), config)) < 4

(***************************************************************************)
(* The chat panel driving the store                                        *)
(***************************************************************************)
\* function calls an AI response may carry: known and unknown identifiers,
\* missing arguments, values outside the closed sets, an unknown function.
\* change_interior with a display name as colour is what demo mode sends
\* (openai.ts, handleDemoMode, interior commands).
CALL_INPUTS == <<
  [name |-> "change_color", args |-> [colorId |-> "frozen-deep-grey"]],
  [name |-> "change_color", args |-> [colorId |-> "no-such-color"]],
  [name |-> "change_color", args |-> EmptyRecord],
  [name |-> "change_wheels", args |-> [wheelId |-> "standard-19"]],
  [name |-> "change_wheels", args |-> [wheelId |-> "no-such-wheel"]],
  [name |-> "change_interior", args |-> [leather |-> "extended-merino"]],
  [name |-> "change_interior", args |-> [trim |-> "carbon"]],
  [name |-> "change_interior", args |-> [color |-> "Cognac"]],
  [name |-> "change_interior", args |-> [color |-> "cognac"]],
  [name |-> "change_brakes", args |-> [brakes |-> "ceramic"]],
  [name |-> "change_brakes", args |-> EmptyRecord],
  [name |-> "set_performance_package", args |-> [package |-> "none"]],
  [name |-> "set_performance_package", args |-> [package |-> "sport"]],
  [name |-> "move_camera", args |-> [position |-> "wheels"]],
  [name |-> "validate_configuration", args |-> EmptyRecord],
  [name |-> "change_grill_color", args |-> [grillColorId |-> "chrome"]],
  [name |-> "change_grill_color", args |-> [grillColorId |-> "no-such-grill"]],
  [name |-> "change_hood_pattern", args |-> [hoodPatternId |-> "carbon-fiber"]],
  [name |-> "change_hood_pattern", args |-> [hoodPatternId |-> "no-such-hood"]],
  [name |-> "get_price", args |-> EmptyRecord] >>

\* the lists of at most MaxCalls function calls, as index lists into CALL_INPUTS
CallLists ==
  UNION {[1..n -> 1..Len(CALL_INPUTS)] : n \in 0..MaxCalls}

\* what the user types, clicks or says
TextInputs == {"", "Cognac Leder", "Keramik Bremsen"}

\* handleSubmit(messageText) up to the await; a call with no text or while
\* loading returns at once
Chat_handleSubmit ==
  \E text \in TextInputs :
    /\ chat.pc = "idle"
    /\ Len(messages) + 2 <= MaxMessages
    /\ last' = [op |-> "handleSubmit", arg |-> text]
    /\ UNCHANGED steps
    /\ IF text = "" \/ ui.isLoading
         THEN /\ Becomes(Store)
              /\ UNCHANGED chat
         ELSE /\ Becomes(addMessage(setLoading(Store, TRUE),
                                    [role |-> "user", content |-> text]))
              /\ chat' = [pc |-> "awaiting", text |-> text, config |-> config]

\* sendMessageToOpenAI resolves and handleSubmit runs to its end
Chat_resolve ==
  \E calls \in CallLists :
    LET functionCalls == [i \in 1..Len(calls) |-> CALL_INPUTS[calls[i]]]
        response == [message |-> "Konfiguration wird aktualisiert.",
                     functionCalls |-> functionCalls]
    IN  /\ chat.pc = "awaiting"
        /\ last' = [op |-> "response", arg |-> functionCalls]
        /\ UNCHANGED steps
        /\ Becomes(applyResponse(Store, response, chat.config))
        /\ chat' = CHAT_IDLE

NextChat ==
  \/ Chat_handleSubmit
  \/ Chat_resolve

SpecChat == Init /\ [][NextChat]_vars

(***************************************************************************)
(* C6: after any sequence of chat function calls every dimension of the    *)
(* stored configuration holds exactly one value of its declared set and no *)
(* field is undefined.                                                     *)
(***************************************************************************)
WellFormed(cfg) ==
  /\ DOMAIN cfg = ConfigFields
  /\ cfg.model \in Models
  /\ cfg.performancePackage \in PerformancePackages
  /\ cfg.color \in Range(AVAILABLE_COLORS)
  /\ cfg.wheels \in Range(AVAILABLE_WHEELS)
  /\ cfg.brakes \in BrakeTypes
  /\ DOMAIN cfg.interior = {"leather", "color", "trim"}
  /\ cfg.interior.leather \in Leathers
  /\ cfg.interior.color \in Ids(INTERIOR_COLORS)
  /\ cfg.interior.trim \in Trims
  /\ cfg.lights \in Lights
  /\ cfg.sound \in Sounds
  /\ cfg.drivingAssistant \in DrivingAssistants
  /\ cfg.grillColor \in Range(AVAILABLE_GRILL_COLORS)
  /\ cfg.hoodPattern \in Range(AVAILABLE_HOOD_PATTERNS)

C6_EveryDimensionHasValue == WellFormed(config)

(***************************************************************************)
(* C7: a lookup miss is a no-op. setColor, setWheels, setGrillColor and    *)
(* setHoodPattern called with an identifier outside the catalog leave      *)
(* config, validationResult, messages and ui unchanged, and                *)
(* executeOpenAIFunctionCall for change_color, change_wheels,              *)
(* change_grill_color or change_hood_pattern with such an identifier (or   *)
(* none) returns no configUpdate.                                          *)
(***************************************************************************)
\* the catalog a setter or a chat function looks its identifier up in
CatalogOf(name) ==
  CASE name \in {"setColor", "change_color"} -> AVAILABLE_COLORS
    [] name \in {"setWheels", "change_wheels"} -> AVAILABLE_WHEELS
    [] name \in {"setGrillColor", "change_grill_color"} -> AVAILABLE_GRILL_COLORS
    [] name \in {"setHoodPattern", "change_hood_pattern"} -> AVAILABLE_HOOD_PATTERNS

ArgumentOf(name) ==
  CASE name = "change_color" -> "colorId"
    [] name = "change_wheels" -> "wheelId"
    [] name = "change_grill_color" -> "grillColorId"
    [] name = "change_hood_pattern" -> "hoodPatternId"

LookupSetters == {"setColor", "setWheels", "setGrillColor", "setHoodPattern"}
LookupFunctions ==
  {"change_color", "change_wheels", "change_grill_color", "change_hood_pattern"}
UnknownIds ==
  {"no-such-color", "no-such-wheel", "no-such-grill", "no-such-hood", "", undefined}

LookupMiss == last.op \in LookupSetters /\ last.arg \notin Ids(CatalogOf(last.op))

C7_LookupMissIsNoOp ==
  [][ LookupMiss' =>
        /\ UNCHANGED <<config, validationResult, messages, ui>>
        /\ \A name \in LookupFunctions : \A id \in UnknownIds \cup {last'.arg} :
             /\ id \notin Ids(CatalogOf(name))
             /\ "configUpdate" \notin
                  DOMAIN executeOpenAIFunctionCall(name, [k \in {ArgumentOf(name)} |-> id], config')
             /\ "configUpdate" \notin
                  DOMAIN executeOpenAIFunctionCall(name, EmptyRecord, config')
    ]_vars

\* setColor was called with an unknown identifier on a configuration whose
\* colour is no longer the default one, and the colour is still a catalog entry
C7_Witness ==
  /\ last.op = "setColor"
  /\ last.arg = "no-such-color"
  /\ config.color \in Range(AVAILABLE_COLORS)
  /\ config.color # DEFAULT_CONFIG.color

(***************************************************************************)
(* C8: updateConfig(updates) stores a configuration that has the supplied  *)
(* value in every field present in updates and the previous value in every *)
(* other field; messages and ui are unchanged.                             *)
(***************************************************************************)
IsUpdateConfig == last.op = "updateConfig"

C8_UpdateFrame ==
  [][ IsUpdateConfig' =>
        LET updates == last'.arg
        IN  /\ DOMAIN config' = (DOMAIN config) \cup (DOMAIN updates)
            /\ \A f \in DOMAIN config' :
                 IF f \in DOMAIN updates
                   THEN config'[f] = updates[f]
                   ELSE config'[f] = config[f]
            /\ UNCHANGED <<messages, ui>>
    ]_vars

\* updateConfig changed the package of a configuration whose colour had been
\* changed before: the colour is kept, the package is the supplied one
C8_Witness ==
  /\ IsUpdateConfig
  /\ DOMAIN last.arg = {"performancePackage"}
  /\ config.performancePackage = "competition"
  /\ config.color.id = "frozen-deep-grey"


(***************************************************************************)
(* suggestFixes on the result of one violated rule whose alternative is    *)
(* any identifier: the first call made after construction.                 *)
(***************************************************************************)
\* the identifiers a rule may carry as its alternative: every wheel and
\* colour of the catalogs, the other alternatives in use, and unknown ones
AlternativeInputs ==
  Ids(AVAILABLE_WHEELS) \cup Ids(AVAILABLE_COLORS)
    \cup {"performance", "vernasca", "aluminum", "laser", "harman-kardon"}
    \cup {"no-such-wheel", "no-such-color"}

Do_suggestFixes ==
  /\ steps = 0
  /\ \E i \in 1..Len(BMW_M5_CONSTRAINTS) : \E alt \in AlternativeInputs :
       LET rule == [BMW_M5_CONSTRAINTS[i] EXCEPT !.suggestedAlternative = alt]
           result == [isValid |-> rule.severity # "block",
                      blockers |-> IF rule.severity = "block" THEN <<rule>> ELSE <<>>,
                      warnings |-> IF rule.severity = "warn" THEN <<rule>> ELSE <<>>,
                      totalViolations |-> 1]
       IN  /\ last' = [op |-> "suggestFixes", arg |-> rule,
                       out |-> suggestFixes(result, config)]
           /\ steps' = steps + 1
           /\ UNCHANGED <<config, validationResult, messages, ui, chat>>

NextSuggest == Do_suggestFixes

SpecSuggest == Init /\ [][NextSuggest]_vars

(***************************************************************************)
(* C21: the suggestion for a wheels- or color-category rule names the      *)
(* replacement by the display name the catalog (AVAILABLE_WHEELS,          *)
(* AVAILABLE_COLORS) gives for suggestedAlternative whenever the catalog   *)
(* has that identifier, and by the raw identifier only when it has not.    *)
(***************************************************************************)
CatalogName(catalog, id) ==
  LET hit == find(catalog, id)
  IN  IF Len(hit) > 0 THEN hit[1].name ELSE id

null == "<null>"

NULL_ARGS == [isNull |-> TRUE]

Fulfilled(value) == [status |-> "fulfilled", value |-> value]

Rejected == [status |-> "rejected"]

\* JSON.parse on the argument texts the API answers below carry: the parsed
\* value, or a SyntaxError for a text that is not JSON
JSON_parse(text) ==
  CASE text = "{}" -> [ok |-> TRUE, value |-> EmptyRecord]
    [] text = "null" -> [ok |-> TRUE, value |-> NULL_ARGS]
    [] text = "{\"colorId\":\"frozen-deep-grey\"}" ->
         [ok |-> TRUE, value |-> [colorId |-> "frozen-deep-grey"]]
    [] text = "{\"colorId\":\"no-such-color\"}" ->
         [ok |-> TRUE, value |-> [colorId |-> "no-such-color"]]
    [] text = "{\"wheelId\":\"standard-19\"}" ->
         [ok |-> TRUE, value |-> [wheelId |-> "standard-19"]]
    [] text = "{\"leather\":\"extended-merino\"}" ->
         [ok |-> TRUE, value |-> [leather |-> "extended-merino"]]
    [] text = "{\"trim\":\"carbon\"}" ->
         [ok |-> TRUE, value |-> [trim |-> "carbon"]]
    [] text = "{\"position\":\"wheels\"}" ->
         [ok |-> TRUE, value |-> [position |-> "wheels"]]
    [] OTHER -> [ok |-> FALSE]

NO_ANSWER_TEXT == "Entschuldigung, ich konnte Ihre Anfrage nicht verarbeiten."

\* variant: an error of the API call is passed on to the caller
sendMessageToOpenAI_Rethrows(userMessage, currentConfig, API_KEY, completion) ==
  IF ~API_KEY
    THEN Fulfilled(demoReply(userMessage, currentConfig))
    ELSE IF completion.status = "rejected"
      THEN Rejected
      ELSE IF Len(completion.value.choices) = 0
        THEN Fulfilled(demoReply(userMessage, currentConfig))
        ELSE Fulfilled([message |-> NO_ANSWER_TEXT, functionCalls |-> <<>>])

\* the promise sendMessageToOpenAI returns, settled.  conversationHistory
\* only goes into the request and is left out.
sendMessageToOpenAI(userMessage, currentConfig, API_KEY, completion) ==
  LET choices == completion.value.choices
      message == choices[1].message
      tool_calls == IF "tool_calls" \in DOMAIN message THEN message.tool_calls ELSE <<>>
      Parses(toolCall) ==
        toolCall.type = "function" /\ JSON_parse(toolCall.function.arguments).ok
      kept == SelectSeq(tool_calls, Parses)
      functionCalls ==
        [i \in 1..Len(kept) |->
           [name |-> kept[i].function.name,
            args |-> JSON_parse(kept[i].function.arguments).value]]
      content == IF message.content = null THEN "" ELSE message.content
      functionName == functionCalls[1].name
      needsAcknowledgment == content = "" /\ Len(functionCalls) > 0
      \* functionCalls[0].args.colorId with args null is a TypeError
      acknowledgmentThrows ==
        /\ needsAcknowledgment
        /\ functionName \in {"change_color", "change_wheels"}
        /\ functionCalls[1].args = NULL_ARGS
      acknowledgment ==
        IF functionName = "change_color"
          THEN LET color == find(AVAILABLE_COLORS, Get(functionCalls[1].args, "colorId"))
               IN  IF Len(color) > 0
                     THEN "Ich ändere die Farbe auf " \o color[1].name \o "."
                     ELSE "Farbe wird geändert."
        ELSE IF functionName = "change_wheels"
          THEN LET wheel == find(AVAILABLE_WHEELS, Get(functionCalls[1].args, "wheelId"))
               IN  IF Len(wheel) > 0
                     THEN "Ich ändere die Felgen auf " \o wheel[1].name \o "."
                     ELSE "Felgen werden geändert."
        ELSE IF functionName = "move_camera"
          THEN "Die Ansicht wird geändert."
        ELSE "Konfiguration wird aktualisiert."
      responseText == IF needsAcknowledgment THEN acknowledgment ELSE content
  IN  IF ~API_KEY
        THEN Fulfilled(demoReply(userMessage, currentConfig))
      ELSE IF \/ completion.status = "rejected"
              \/ Len(choices) = 0
              \/ acknowledgmentThrows
        THEN Fulfilled(demoReply(userMessage, currentConfig))
      ELSE Fulfilled([message |-> IF responseText = "" THEN NO_ANSWER_TEXT ELSE responseText,
                      functionCalls |-> functionCalls])

(***************************************************************************)
(* ChatPanel: handleSubmit with sendMessageToOpenAI, the input field, the  *)
(* quick actions and the voice hook                                        *)
(***************************************************************************)
ERROR_TEXT == "Entschuldigung, es ist ein Fehler aufgetreten. Bitte versuchen Sie es erneut."

\* the characters as a string again
RECURSIVE fromChars(_)
fromChars(cs) == IF cs = <<>> THEN "" ELSE Head(cs) \o fromChars(Tail(cs))

\* String.prototype.trim
trim(s) == fromChars(trimEnd(trimStart(Chars(s))))

\* the component state of a mounted ChatPanel: the input field, the voice
\* hook's transcripts, conversationHistory, and the calls of
\* sendMessageToOpenAI that have not settled, each with the config its
\* handleSubmit closure holds; sent counts those calls
NewPanel(API_KEY) ==
  [pc |-> "panel", API_KEY |-> API_KEY, input |-> "", transcript |-> "",
   interimTranscript |-> "", conversationHistory |-> <<>>, inFlight |-> <<>>,
   sent |-> 0]

\* variant: handleSubmit does not look at ui.isLoading
handleSubmit_IgnoresLoading(s, panel, messageText) ==
  LET text == IF Truthy(messageText) THEN messageText ELSE trim(panel.input)
  IN  IF ~Truthy(text)
        THEN [store |-> s, panel |-> panel]
        ELSE [store |-> addMessage(setLoading(s, TRUE), [role |-> "user", content |-> text]),
              panel |-> [panel EXCEPT
                           !.input = "",
                           !.conversationHistory =
                              Append(@, [role |-> "user", content |-> text]),
                           !.inFlight = Append(@, [text |-> text, config |-> s.config]),
                           !.sent = @ + 1]]

\* handleSubmit(messageText) up to the await: the store and the component
\* state it leaves.  The scroll trigger only moves the view and is left out.
handleSubmit(s, panel, messageText) ==
  LET text == IF Truthy(messageText) THEN messageText ELSE trim(panel.input)
  IN  IF ~Truthy(text) \/ s.ui.isLoading
        THEN [store |-> s, panel |-> panel]
        ELSE [store |-> addMessage(setLoading(s, TRUE), [role |-> "user", content |-> text]),
              panel |-> [panel EXCEPT
                           !.input = "",
                           !.conversationHistory =
                              Append(@, [role |-> "user", content |-> text]),
                           !.inFlight = Append(@, [text |-> text, config |-> s.config]),
                           !.sent = @ + 1]]

\* the functions of executeOpenAIFunctionCall that read a property of args
ARGS_READERS ==
  {"change_color", "change_wheels", "change_interior", "change_brakes",
   "set_performance_package", "move_camera", "change_grill_color",
   "change_hood_pattern"}

\* the calls at which executeOpenAIFunctionCall throws: args is null
ThrowingCalls(functionCalls) ==
  {i \in 1..Len(functionCalls) :
     functionCalls[i].args = NULL_ARGS /\ functionCalls[i].name \in ARGS_READERS}

\* variant: the catch block adds no message
handleSubmit_settled_SilentCatch(s, panel, settled, closureConfig) ==
  IF settled.status = "fulfilled" /\ ThrowingCalls(settled.value.functionCalls) = {}
    THEN [store |-> applyResponse(s, settled.value, closureConfig),
          panel |-> [panel EXCEPT !.conversationHistory =
                       Append(@, [role |-> "assistant", content |-> settled.value.message])]]
    ELSE [store |-> setLoading(s, FALSE), panel |-> panel]

\* handleSubmit after the await: try, catch and finally
handleSubmit_settled(s, panel, settled, closureConfig) ==
  LET failed(store) ==
        [store |-> setLoading(addMessage(store, [role |-> "assistant", content |-> ERROR_TEXT]),
                              FALSE),
         panel |-> panel]
  IN  IF settled.status = "rejected"
        THEN failed(s)
        ELSE LET response == settled.value
                 throwing == ThrowingCalls(response.functionCalls)
             IN  IF throwing = {}
                   THEN [store |-> applyResponse(s, response, closureConfig),
                         panel |-> [panel EXCEPT !.conversationHistory =
                                      Append(@, [role |-> "assistant",
                                                 content |-> response.message])]]
                   ELSE LET k == CHOOSE i \in throwing : \A j \in throwing : i <= j
                            executed == executeFunctionCalls(
                                          s, SubSeq(response.functionCalls, 1, k - 1),
                                          closureConfig)
                        IN  failed(executed.store)

\* useVoiceInput, recognition.onresult: the transcripts of the event's
\* results, final ones and interim ones apart
RECURSIVE transcriptOf(_, _)
transcriptOf(results, isFinal) ==
  IF results = <<>> THEN ""
  ELSE (IF Head(results).isFinal = isFinal THEN Head(results).transcript ELSE "")
       \o transcriptOf(Tail(results), isFinal)

\* variant: interim results are handed to onResult as well
onresult_SubmitsInterim(s, panel, results) ==
  LET spoken == transcriptOf(results, TRUE) \o transcriptOf(results, FALSE)
  IN  IF spoken # "" /\ ~s.ui.isLoading
        THEN [store |-> addMessage(setLoading(s, TRUE), [role |-> "user", content |-> spoken]),
              panel |-> [panel EXCEPT
                           !.transcript = spoken,
                           !.input = "",
                           !.conversationHistory =
                              Append(@, [role |-> "user", content |-> spoken]),
                           !.inFlight = Append(@, [text |-> spoken, config |-> s.config]),
                           !.sent = @ + 1]]
        ELSE [store |-> s, panel |-> [panel EXCEPT !.input = spoken]]

\* recognition.onresult with the panel's onResult callback
onresult(s, panel, results) ==
  LET finalTranscript == transcriptOf(results, TRUE)
      interim == transcriptOf(results, FALSE)
  IN  IF finalTranscript # ""
        THEN handleSubmit(s,
                          [panel EXCEPT !.transcript = finalTranscript,
                                        !.interimTranscript = "",
                                        !.input = finalTranscript],
                          finalTranscript)
        ELSE [store |-> s, panel |-> [panel EXCEPT !.interimTranscript = interim]]

(***************************************************************************)
(* The chat panel as a state machine                                       *)
(***************************************************************************)
MaxDemoMessages == 5  \* chat messages kept in a session without API key

\* what the user types into the input field
TypedTexts == {" ", " Cognac Leder "}

QUICK_ACTIONS == <<"Zeig mir die Farben", "Felgen ändern", "Standard Felgen">>

\* what the user says
VoiceTexts ==
  {"standard-19 oder m-star-spoke-21", "M Sternspeiche", "Frozen Deep Grey",
   "Extended Merino Leder", "Innenraum Carbon", "Keramik Bremsen", "Paket ohne",
   "M Competition Paket", "Konfiguration prüfen", " "}

SpeechResult(isFinal, transcript) == [isFinal |-> isFinal, transcript |-> transcript]

\* the result lists speech recognition delivers
VoiceEvents ==
  {<<SpeechResult(TRUE, t)>> : t \in VoiceTexts}
    \cup {<<SpeechResult(FALSE, "Standard Fel")>>,
          <<SpeechResult(FALSE, "Zeig"), SpeechResult(FALSE, " mir")>>,
          <<SpeechResult(TRUE, "Standard "), SpeechResult(TRUE, "Felgen")>>,
          <<SpeechResult(TRUE, "Hallo"), SpeechResult(FALSE, "Zeig")>>}

ToolCall(name, arguments) ==
  [type |-> "function", function |-> [name |-> name, arguments |-> arguments]]

Completion(content, tool_calls) ==
  Fulfilled([choices |-> <<[message |-> [content |-> content, tool_calls |-> tool_calls]]>>])

\* how openai.chat.completions.create settles
Completions ==
  { Rejected,
    Fulfilled([choices |-> <<>>]),
    Fulfilled([choices |-> <<[message |-> [content |-> "Gern."]]>>]),
    Completion(null, <<>>),
    Completion(null, <<ToolCall("change_color", "{\"colorId\":\"frozen-deep-grey\"}")>>),
    Completion(null, <<ToolCall("change_color", "{\"colorId\":\"no-such-color\"}")>>),
    Completion(null, <<ToolCall("change_wheels", "{\"wheelId\":\"standard-19\"}")>>),
    Completion(null, <<ToolCall("change_interior", "{\"leather\":\"extended-merino\"}"),
                       ToolCall("change_interior", "{\"trim\":\"carbon\"}")>>),
    Completion(null, <<ToolCall("validate_configuration", "{}")>>),
    Completion(null, <<ToolCall("validate_configuration", "{}"),
                       ToolCall("validate_configuration", "{}")>>),
    Completion(null, <<ToolCall("change_color", "{\"colorId\":")>>),
    Completion("Ich ändere die Farbe.",
               <<ToolCall("change_color", "{\"colorId\":"),
                 [type |-> "custom", function |-> [name |-> "change_color", arguments |-> "{}"]]>>),
    Completion(null, <<ToolCall("change_color", "null")>>),
    Completion(null, <<ToolCall("move_camera", "{\"position\":\"wheels\"}"),
                       ToolCall("change_color", "null")>>) }

\* create is not called without an API key
NOT_CALLED == [status |-> "not called"]

InitPanel ==
  /\ config = INITIAL_STORE.config
  /\ validationResult = INITIAL_STORE.validationResult
  /\ messages = INITIAL_STORE.messages
  /\ ui = INITIAL_STORE.ui
  /\ last = [op |-> "create", arg |-> ""]
  /\ steps = 0
  /\ chat \in {NewPanel(API_KEY) : API_KEY \in BOOLEAN}

\* the exploration stops accepting submissions at this many messages
RoomForExchange ==
  Len(messages) + 2 <= (IF chat.API_KEY THEN MaxMessages ELSE MaxDemoMessages)

PanelBecomes(opName, a, after) ==
  /\ Becomes(after.store)
  /\ chat' = after.panel
  /\ last' = [op |-> opName, arg |-> a]
  /\ UNCHANGED steps

\* the input field's onChange; the field is disabled while loading
Panel_setInput ==
  \E text \in TypedTexts :
    /\ ~ui.isLoading
    /\ PanelBecomes("setInput", text, [store |-> Store, panel |-> [chat EXCEPT !.input = text]])

\* onFormSubmit; the send button is disabled without text and while loading
Panel_onFormSubmit ==
  /\ RoomForExchange
  /\ trim(chat.input) # "" /\ ~ui.isLoading
  /\ PanelBecomes("onFormSubmit", chat.input, handleSubmit(Store, chat, undefined))

\* a quick action button; the buttons are disabled while loading
Panel_quickAction ==
  \E i \in 1..Len(QUICK_ACTIONS) :
    /\ RoomForExchange
    /\ ~ui.isLoading
    /\ PanelBecomes("quickAction", QUICK_ACTIONS[i], handleSubmit(Store, chat, QUICK_ACTIONS[i]))

\* speech recognition delivers results
Voice_onresult ==
  \E results \in VoiceEvents :
    /\ RoomForExchange
    /\ PanelBecomes("onresult", results, onresult(Store, chat, results))

\* a call of sendMessageToOpenAI settles and its handleSubmit runs to the end
Panel_settle ==
  \E i \in 1..Len(chat.inFlight) :
    \E completion \in (IF chat.API_KEY THEN Completions ELSE {NOT_CALLED}) :
      LET request == chat.inFlight[i]
          rest == [chat EXCEPT !.inFlight =
                     SubSeq(@, 1, i - 1) \o SubSeq(@, i + 1, Len(@))]
      IN  \E settled \in {sendMessageToOpenAI(request.text, request.config,
                                              chat.API_KEY, completion)} :
            \E after \in {handleSubmit_settled(Store, rest, settled, request.config)} :
              /\ Becomes(after.store)
              /\ chat' = after.panel
              /\ last' = [op |-> "settle", text |-> request.text,
                          config |-> request.config,
                          completion |-> completion, settled |-> settled]
              /\ UNCHANGED steps

NextPanel ==
  \/ Panel_setInput
  \/ Panel_onFormSubmit
  \/ Panel_quickAction
  \/ Voice_onresult
  \/ Panel_settle

SpecPanel == InitPanel /\ [][NextPanel]_vars

\* the step that ends a handleSubmit clears ui.isLoading; the calls of the
\* answer may have moved the camera and switched the overlay
Panel_settles ==
  /\ ui.isLoading
  /\ ui' \in {[ui EXCEPT !.isLoading = FALSE,
                         !.cameraPosition = position,
                         !.showValidationOverlay = shown] :
                 position \in CameraPositions, shown \in BOOLEAN}

\* the SDK gives up on a request after its timeout, so every call settles.
\* Panel_settle is enabled exactly while ui.isLoading holds, and the steps
\* of NextPanel that clear ui.isLoading are the Panel_settle steps.
SpecPanelFair == SpecPanel /\ WF_ui(Panel_settles)

(***************************************************************************)
(* C22: sendMessageToOpenAI always resolves and never rejects; without an  *)
(* API key, or when the API call or the handling of its answer fails for   *)
(* any reason, it returns the demo-mode response for the same user message *)
(* and configuration.                                                      *)
(***************************************************************************)
\* the answer carries no message
NoMessage(completion) ==
  completion.status = "fulfilled" /\ Len(completion.value.choices) = 0

\* the function tool calls of the answer
FunctionToolCalls(completion) ==
  IF completion.status = "fulfilled" /\ Len(completion.value.choices) > 0
       /\ "tool_calls" \in DOMAIN completion.value.choices[1].message
    THEN SelectSeq(completion.value.choices[1].message.tool_calls,
                   LAMBDA toolCall : toolCall.type = "function")
    ELSE <<>>

\* the arguments of some function call of the answer are not JSON
ArgumentsUnparsable(completion) ==
  \E i \in 1..Len(FunctionToolCalls(completion)) :
    ~JSON_parse(FunctionToolCalls(completion)[i].function.arguments).ok

\* the answer has no text and the arguments of its first colour or wheel
\* call are null, so that writing the acknowledgment throws
AcknowledgmentFails(completion) ==
  LET parsable == SelectSeq(FunctionToolCalls(completion),
                            LAMBDA toolCall : JSON_parse(toolCall.function.arguments).ok)
  IN  /\ Len(parsable) > 0
      /\ completion.value.choices[1].message.content = null
      /\ parsable[1].function.name \in {"change_color", "change_wheels"}
      /\ JSON_parse(parsable[1].function.arguments).value = NULL_ARGS

Settled == last.op = "settle"

\* C22 as stated: the promise is fulfilled, and with the demo-mode response
\* after any failure, an unparsable function call included.
C22_DemoAfterAnyFailure ==
  Settled =>
    /\ last.settled.status = "fulfilled"
    /\ (\/ ~chat.API_KEY
        \/ last.completion.status = "rejected"
        \/ NoMessage(last.completion)
        \/ AcknowledgmentFails(last.completion)
        \/ ArgumentsUnparsable(last.completion))
         => last.settled.value = demoReply(last.text, last.config)

\* C22, amended: the promise is fulfilled; it carries the demo-mode response
\* when there is no API key, the call fails, the answer has no message or
\* the acknowledgment cannot be written; a function call whose arguments are
\* not JSON is dropped and the rest of the answer is returned.
C22_DemoAfterFailure ==
  Settled =>
    /\ last.settled.status = "fulfilled"
    /\ (\/ ~chat.API_KEY
        \/ last.completion.status = "rejected"
        \/ NoMessage(last.completion)
        \/ AcknowledgmentFails(last.completion))
         => last.settled.value = demoReply(last.text, last.config)
    /\ (/\ chat.API_KEY
        /\ last.completion.status = "fulfilled"
        /\ ~NoMessage(last.completion)
        /\ ~AcknowledgmentFails(last.completion))
         => /\ Len(last.settled.value.functionCalls)
                 = Len(SelectSeq(FunctionToolCalls(last.completion),
                                 LAMBDA toolCall : JSON_parse(toolCall.function.arguments).ok))
            /\ last.settled.value.message \in
                 {NO_ANSWER_TEXT, "Gern.", "Ich ändere die Farbe.",
                  "Ich ändere die Farbe auf Frozen Deep Grey.", "Farbe wird geändert.",
                  "Ich ändere die Felgen auf Standard Alufelgen 19\".",
                  "Die Ansicht wird geändert.", "Konfiguration wird aktualisiert."}

\* the API call failed in a session with a key, and the demo-mode reply to
\* "Keramik Bremsen" changed the brakes
C22_Witness ==
  /\ Settled
  /\ chat.API_KEY
  /\ last.completion = Rejected
  /\ last.text = "Keramik Bremsen"
  /\ config.brakes = "ceramic"

(***************************************************************************)
(* C23: handleDemoMode returns for no user message a change_wheels call    *)
(* naming a wheel of type standard; from the default configuration, chat   *)
(* in demo mode keeps an M-series wheel and never shows the                *)
(* M5_REQUIRES_M_WHEELS blocker.                                           *)
(***************************************************************************)
\* the change_wheels calls of a reply
WheelCalls(reply) ==
  {reply.functionCalls[i].args.wheelId :
     i \in {j \in 1..Len(reply.functionCalls) :
              reply.functionCalls[j].name = "change_wheels"}}

StandardWheelIds ==
  {AVAILABLE_WHEELS[i].id : i \in {j \in 1..Len(AVAILABLE_WHEELS) :
                                     AVAILABLE_WHEELS[j].type = "standard"}}

\* the wheels demo mode selects for the user messages
DEMO_WHEELS ==
  UNION {WheelCalls(handleDemoMode(t, DEFAULT_CONFIG)) : t \in UserMessages}

C23_NoStandardWheelInDemoMode ==
  /\ DEMO_WHEELS \cap StandardWheelIds = {}
  /\ ~chat.API_KEY =>
       /\ startsWith(config.wheels.id, "m-")
       /\ ~Raised("M5_REQUIRES_M_WHEELS", validationResult.blockers)
       /\ Settled => WheelCalls(last.settled.value) \cap StandardWheelIds = {}

\* without API key: the wheels were changed to M Sternspeiche, and then the
\* quick action "Standard Felgen" was answered
C23_Witness ==
  /\ ~chat.API_KEY
  /\ Settled
  /\ last.text = "Standard Felgen"
  /\ last.settled.value.functionCalls = <<FunctionCall("validate_configuration", EmptyRecord)>>
  /\ config.wheels.id = "m-star-spoke-21"

(***************************************************************************)
(* C24: each final transcript of speech recognition is submitted exactly   *)
(* once, a user message with its text is added and a request is sent,      *)
(* whatever the state of the chat panel when it arrives; interim           *)
(* transcripts are never submitted.                                        *)
(***************************************************************************)
\* this step is recognition.onresult
VoiceStep == last'.op = "onresult" /\ vars' # vars

\* this step adds the user message text and sends one request for it
Submits(text) ==
  /\ Len(messages') = Len(messages) + 1
  /\ messages'[Len(messages')].role = "user"
  /\ messages'[Len(messages')].content = text
  /\ chat'.sent = chat.sent + 1
  /\ chat'.inFlight = Append(chat.inFlight, [text |-> text, config |-> config])

\* this step adds no message and sends no request
SubmitsNothing ==
  /\ messages' = messages
  /\ chat'.sent = chat.sent
  /\ chat'.inFlight = chat.inFlight

BLOCK_RULE_COUNT == Len(BlockRulesOnly)

\* the rules a store state shows as triggered
TriggeredIds(s) ==
  {r.id : r \in Range(s.validationResult.blockers \o s.validationResult.warnings)}

\* the ways of following a rule's suggestion: the dimension of its category
\* takes the alternative; for the brakes rule, whose suggestion text asks
\* for the performance package, the package takes it as well
Followed(s, rule) ==
  ApplyAlternative(s, rule)
    \cup (IF rule.category = "brakes" /\ rule.suggestedAlternative \in PerformancePackages
            THEN {setPerformancePackage(s, rule.suggestedAlternative)}
            ELSE {})

RECURSIVE SellableWithin(_, _)
SellableWithin(s, n) ==
  \/ Len(s.validationResult.blockers) = 0
  \/ /\ n > 0
     /\ Followed(s, s.validationResult.blockers[1]) # {}
     /\ \A next \in Followed(s, s.validationResult.blockers[1]) :
          /\ TriggeredIds(next) \subseteq TriggeredIds(s)
          /\ SellableWithin(next, n - 1)

C25_SuggestionsReachSellable ==
  Loaded => SellableWithin(Store, BLOCK_RULE_COUNT)

\* an M5 with the competition package on the standard wheels: the first
\* suggestion (M Doppelspeiche 20") leaves the 21 inch blocker, the second
\* resolves it
C25_Witness ==
  /\ Loaded
  /\ config.model = "M5"
  /\ config.performancePackage = "competition"
  /\ config.wheels.id = "standard-19"
  /\ Len(validationResult.blockers) = 2
  /\ SellableWithin(Store, 2)
  /\ ~SellableWithin(Store, 1)

(***************************************************************************)
(* C26: after handleSubmit has executed a response with several function   *)
(* calls, every field a call sets holds that call's value unless a later   *)
(* call of the response sets the same field; two change_interior calls on  *)
(* different sub-fields both take effect, and interior sub-fields no call  *)
(* names keep their value.                                                 *)
(***************************************************************************)
\* this step is the end of a handleSubmit whose response was executed
\* without an exception
ExecutedStep ==
  /\ last'.op = "settle"
  /\ vars' # vars
  /\ last'.settled.status = "fulfilled"
  /\ ThrowingCalls(last'.settled.value.functionCalls) = {}

\* the last call of functionCalls with this name and a value for this
\* argument; 0 if there is none
LastCall(functionCalls, name, argument) ==
  LET naming == {i \in 1..Len(functionCalls) :
                   /\ functionCalls[i].name = name
                   /\ Truthy(Get(functionCalls[i].args, argument))}
  IN  IF naming = {} THEN 0 ELSE CHOOSE i \in naming : \A j \in naming : j <= i

InteriorFields == {"leather", "color", "trim"}

C26_EveryCallTakesEffect ==
  [][ExecutedStep =>
       LET functionCalls == last'.settled.value.functionCalls
           brakes == LastCall(functionCalls, "change_brakes", "brakes")
           package == LastCall(functionCalls, "set_performance_package", "package")
       IN  /\ \A f \in InteriorFields :
                LET k == LastCall(functionCalls, "change_interior", f)
                IN  config'.interior[f] =
                      IF k = 0 THEN config.interior[f] ELSE functionCalls[k].args[f]
           /\ brakes # 0 => config'.brakes = functionCalls[brakes].args.brakes
           /\ package # 0 => config'.performancePackage = functionCalls[package].args.package]_vars

(***************************************************************************)
(* C27: after ChatPanel has executed a response that contains a            *)
(* validate_configuration call, ui.showValidationOverlay is true, whatever *)
(* its value before and however many such calls the response contains.     *)
(***************************************************************************)
\* the response just executed asked for the validation overlay
ValidationRequested ==
  /\ Settled
  /\ last.settled.status = "fulfilled"
  /\ ThrowingCalls(last.settled.value.functionCalls) = {}
  /\ \E i \in 1..Len(last.settled.value.functionCalls) :
       last.settled.value.functionCalls[i].name = "validate_configuration"

C27_OverlayShownAfterValidation ==
  ValidationRequested => ui.showValidationOverlay

(***************************************************************************)
(* C28: a submission accepted by handleSubmit first adds the user message, *)
(* then exactly one assistant message (the reply, or the fixed error text  *)
(* if processing throws), and then sets ui.isLoading back to false;        *)
(* isLoading does not stay true forever and no accepted user message is    *)
(* left without a reply.                                                   *)
(***************************************************************************)
\* this step accepts a submission
AcceptStep == chat'.sent = chat.sent + 1

\* this step ends a handleSubmit
SettleStep == last'.op = "settle" /\ vars' # vars

\* what the assistant message of the ending handleSubmit says
ReplyText(settled) ==
  IF settled.status = "fulfilled" /\ ThrowingCalls(settled.value.functionCalls) = {}
    THEN settled.value.message
    ELSE ERROR_TEXT

C28_EverySubmissionAnswered ==
  /\ [][AcceptStep =>
          /\ ~ui.isLoading
          /\ ui'.isLoading
          /\ Len(messages') = Len(messages) + 1
          /\ SubSeq(messages', 1, Len(messages)) = messages
          /\ messages'[Len(messages')].role = "user"
          /\ messages'[Len(messages')].content = chat'.inFlight[Len(chat'.inFlight)].text]_vars
  /\ [][SettleStep =>
          /\ ui.isLoading
          /\ ~ui'.isLoading
          /\ messages[Len(messages)].role = "user"
          /\ messages[Len(messages)].content = last'.text
          /\ Len(messages') = Len(messages) + 1
          /\ SubSeq(messages', 1, Len(messages)) = messages
          /\ messages'[Len(messages')].role = "assistant"
          /\ messages'[Len(messages')].content = ReplyText(last'.settled)]_vars
  /\ [][ui.isLoading /\ ~SettleStep => ui'.isLoading /\ messages' = messages]_vars
  /\ (ui.isLoading ~> ~ui.isLoading)
  /\ (Len(chat.inFlight) > 0 ~> Len(chat.inFlight) = 0)

\* the answer moved the camera and then named a colour with null arguments:
\* the camera has moved, the error text is the reply and loading has ended
C28_Witness ==
  /\ Settled
  /\ last.settled.status = "fulfilled"
  /\ ThrowingCalls(last.settled.value.functionCalls) # {}
  /\ ui.cameraPosition = "wheels"
  /\ messages[Len(messages)].content = ERROR_TEXT
  /\ messages[Len(messages) - 1].role = "user"
  /\ ~ui.isLoading

(***************************************************************************)
(* C29: at most one chat request is in flight.  While ui.isLoading is true *)
(* a further handleSubmit (typed text, quick action or voice transcript)   *)
(* adds no message, sends no request and changes no configuration.         *)
(***************************************************************************)
\* what handleSubmit can be called with: nothing (the form), a quick action
\* or a voice transcript
SubmittedTexts ==
  {undefined} \cup {QUICK_ACTIONS[i] : i \in 1..Len(QUICK_ACTIONS)} \cup VoiceTexts

C29_OneRequestInFlight ==
  /\ [](Len(chat.inFlight) <= 1)
  /\ [](ui.isLoading <=> Len(chat.inFlight) = 1)
  /\ [](ui.isLoading =>
          \A messageText \in SubmittedTexts :
            handleSubmit(Store, chat, messageText) = [store |-> Store, panel |-> chat])
  /\ [][ui.isLoading /\ ~SettleStep =>
          /\ messages' = messages
          /\ config' = config
          /\ validationResult' = validationResult
          /\ chat'.sent = chat.sent
          /\ chat'.inFlight = chat.inFlight
          /\ ui' = ui]_vars

\* a voice transcript arrived while a request was in flight and was dropped
C29_Witness ==
  /\ last.op = "onresult"
  /\ ui.isLoading
  /\ transcriptOf(last.arg, TRUE) # ""
  /\ chat.transcript = transcriptOf(last.arg, TRUE)
  /\ Len(chat.inFlight) = 1
  /\ chat.inFlight[1].text # chat.transcript
  /\ chat.sent = 1
  /\ Len(messages) = 2
  /\ messages[2].content = chat.inFlight[1].text
  /\ config = chat.inFlight[1].config

(***************************************************************************)
(* The named setters and the chat function calls together: the ways the    *)
(* application itself writes the configuration (updateConfig is called     *)
(* from handleSubmit only, with the updates the function calls produced)   *)
(***************************************************************************)
\* the function calls of one answer: none, any single call, or a frozen
\* colour together with extended merino leather
NamedCallLists ==
  {<<>>, <<1, 6>>} \cup {<<i>> : i \in 1..Len(CALL_INPUTS)}

\* sendMessageToOpenAI resolves with one of these answers and handleSubmit
\* runs to its end
Named_resolve ==
  \E calls \in NamedCallLists :
    LET functionCalls == [i \in 1..Len(calls) |-> CALL_INPUTS[calls[i]]]
        response == [message |-> "Konfiguration wird aktualisiert.",
                     functionCalls |-> functionCalls]
    IN  /\ chat.pc = "awaiting"
        /\ last' = [op |-> "response", arg |-> functionCalls]
        /\ UNCHANGED steps
        /\ Becomes(applyResponse(Store, response, chat.config))
        /\ chat' = CHAT_IDLE

\* setter calls in one session of this model
MaxNamedSteps == 1

NextNamed ==
  \/ /\ steps < MaxNamedSteps
     /\ \/ Do_setColor
        \/ Do_setWheels
        \/ Do_setInterior
        \/ Do_setPerformancePackage
        \/ Do_setBrakes
        \/ Do_setGrillColor
        \/ Do_setHoodPattern
        \/ Do_resetConfig
        \/ Do_revalidate
  \/ Chat_handleSubmit
  \/ Named_resolve

SpecNamed == Init /\ [][NextNamed]_vars

(***************************************************************************)
(* C30: config.model is 'M5' in every state reached through the named      *)
(* setters and the chat function calls (a direct updateConfig with a model *)
(* field is what can change it); so FROZEN_COLOR_M5 and MERINO_LEATHER_M5  *)
(* never appear in validationResult, and selecting a frozen colour or      *)
(* extended merino leather never invalidates the configuration.            *)
(***************************************************************************)
MODEL_RULES == {"FROZEN_COLOR_M5", "MERINO_LEATHER_M5"}

\* the identifiers of the rules a validation result reports
ReportedIds(result) ==
  {result.blockers[i].id : i \in 1..Len(result.blockers)}
    \cup {result.warnings[i].id : i \in 1..Len(result.warnings)}

FrozenColorIds == {id \in Ids(AVAILABLE_COLORS) : startsWith(id, "frozen-")}

\* the store after the selection reports what it reported before
SelectsCleanly(after) ==
  /\ after.validationResult.isValid = validationResult.isValid
  /\ ReportedIds(after.validationResult) = ReportedIds(validationResult)

\* this step changed the configuration in nothing but the exterior colour,
\* to a frozen one, or in nothing but the leather, to extended merino
SelectionStep ==
  \/ /\ config'.color # config.color
     /\ config' = [config EXCEPT !.color = config'.color]
     /\ config'.color.id \in FrozenColorIds
  \/ /\ config'.interior.leather # config.interior.leather
     /\ config' = [config EXCEPT !.interior.leather = "extended-merino"]

C30_ModelStaysM5 ==
  /\ [](config.model = "M5")
  /\ [](ReportedIds(validationResult) \cap MODEL_RULES = {})
  /\ [](updateConfig(Store, [model |-> "5-series"]).config.model = "5-series")
  /\ [](\A id \in FrozenColorIds :
          LET after == setColor(Store, id)
          IN  after.config.color.id = id /\ SelectsCleanly(after))
  /\ [](LET after == setInterior(Store, [leather |-> "extended-merino"])
        IN  /\ after.config.interior.leather = "extended-merino"
            /\ SelectsCleanly(after))
  /\ [][SelectionStep =>
          /\ validationResult'.isValid = validationResult.isValid
          /\ ReportedIds(validationResult') = ReportedIds(validationResult)]_vars

\* a frozen colour was set by the setter, extended merino leather by a chat
\* function call, and the configuration is valid
C30_Witness ==
  /\ last.op = "response"
  /\ Len(last.arg) = 1 /\ last.arg[1].name = "change_interior"
  /\ config.color.id \in FrozenColorIds
  /\ config.interior.leather = "extended-merino"
  /\ config.model = "M5"
  /\ validationResult.isValid

====
